---- MODULE Spec2Model ----
(***************************************************************************)
(* The classification and aggregation engine of the profit calculator:    *)
(* src/main.py and src/process_expense_ad.py.                              *)
(*                                                                         *)
(* Text is a sequence of characters.  An ASCII character is the string of  *)
(* that character; any other character is the string "UXXXX" of its       *)
(* Unicode code point.  The comment above a text gives it as written in   *)
(* the source.                                                             *)
(*                                                                         *)
(* A float is a record [t, v]: t = "fin" with v the value in tenths, or    *)
(* t = "inf" with v the sign, or t = "nan".  Cell texts carry at most one  *)
(* fractional digit, and that digit is 0 or 5, so that the binary float    *)
(* sums of the program are exact and equal the decimal sums computed here. *)
(***************************************************************************)
EXTENDS Integers, Sequences, FiniteSets, TLC

VARIABLES kind, account_type, data, results, pc, returned, failed,
          file_paths, next_file, all_results, merged_results,
          call_value, call_date_str, answer,
          spreadsheet_data, call_obj, call_log,
          store, last_saved, store_call

\* the state of upload_and_calculate around a classifier call
upload_vars == <<file_paths, next_file, all_results, merged_results>>

\* the argument of a call of safe_float_convert or of extract_month_from_date
\* and what it returns
call_vars == <<call_value, call_date_str, answer>>

\* the state of the functions behind the merge: the report of
\* convert_to_spreadsheet_format, the argument of sanitize_for_json and the
\* calls a process has served, in their order
service_vars == <<spreadsheet_data, call_obj, call_log, store, last_saved, store_call>>

\* the month store: the directories under DATA_DIR, the last call made on it
\* and, as a history of the calls, what the last successful save of every
\* month key wrote unless a delete followed
store_vars == <<store, last_saved, store_call>>

vars == <<kind, account_type, data, results, pc, returned, failed,
          file_paths, next_file, all_results, merged_results,
          call_value, call_date_str, answer,
          spreadsheet_data, call_obj, call_log,
          store, last_saved, store_call>>

----------------------------------------------------------------------------
(* Bounds *)

\* rows of one uploaded table
MaxRows == 2

\* files of one upload request
MaxFiles == 3

----------------------------------------------------------------------------
(* Python str operations *)

\* `t in s`
Contains(s, t) ==
    \E i \in 0..(Len(s) - Len(t)) : SubSeq(s, i + 1, i + Len(t)) = t

\* any(term in s for term in terms)
ContainsAny(s, terms) == \E t \in terms : Contains(s, t)

UpperCase == <<"A", "B", "C", "D", "E", "F", "G", "H", "I", "J", "K", "L", "M",
               "N", "O", "P", "Q", "R", "S", "T", "U", "V", "W", "X", "Y", "Z">>

LowerCase == <<"a", "b", "c", "d", "e", "f", "g", "h", "i", "j", "k", "l", "m",
               "n", "o", "p", "q", "r", "s", "t", "u", "v", "w", "x", "y", "z">>

\* s.lower()
Lower(s) ==
    [i \in 1..Len(s) |->
        IF \E k \in 1..26 : UpperCase[k] = s[i]
        THEN LowerCase[CHOOSE k \in 1..26 : UpperCase[k] = s[i]]
        ELSE s[i]]

\* the characters str.strip() removes: space, tab, ideographic space
Whitespace == {" ", "U0009", "U3000"}

\* s.strip()
Strip(s) ==
    LET keep == {i \in 1..Len(s) : s[i] \notin Whitespace}
    IN  IF keep = {} THEN <<>>
        ELSE SubSeq(s, CHOOSE i \in keep : \A j \in keep : i <= j,
                       CHOOSE i \in keep : \A j \in keep : j <= i)

\* s.replace(c, '') for a one-character c
Remove(s, c) == SelectSeq(s, LAMBDA x : x # c)

\* s.split(sep) for a one-character sep
Split(s, sep) ==
    LET at == {i \in 1..Len(s) : s[i] = sep}
        n == Cardinality(at)
        pos(k) == IF k = 0 THEN 0
                  ELSE IF k = n + 1 THEN Len(s) + 1
                  ELSE CHOOSE p \in at : Cardinality({q \in at : q < p}) = k - 1
    IN  [k \in 1..(n + 1) |-> SubSeq(s, pos(k - 1) + 1, pos(k) - 1)]

Digit == <<"0", "1", "2", "3", "4", "5", "6", "7", "8", "9">>

IsDigit(c) == \E d \in 1..10 : Digit[d] = c

DigitVal(c) == (CHOOSE d \in 1..10 : Digit[d] = c) - 1

RECURSIVE DigitsVal(_)
\* the number a non-empty run of decimal digits denotes
DigitsVal(s) ==
    IF Len(s) = 0 THEN 0
    ELSE 10 * DigitsVal(SubSeq(s, 1, Len(s) - 1)) + DigitVal(s[Len(s)])

AllDigits(s) == Len(s) > 0 /\ \A i \in 1..Len(s) : IsDigit(s[i])

\* int(s): surrounding whitespace, an optional sign, decimal digits;
\* ok = FALSE stands for ValueError
PyInt(s) ==
    LET t == Strip(s)
        signed == Len(t) > 0 /\ t[1] \in {"+", "-"}
        body == IF signed THEN Tail(t) ELSE t
    IN  IF AllDigits(body)
        THEN [ok |-> TRUE,
              v |-> IF signed /\ t[1] = "-" THEN 0 - DigitsVal(body) ELSE DigitsVal(body)]
        ELSE [ok |-> FALSE, v |-> 0]

RECURSIVE IntToStr(_)
\* str(n) for n >= 0
IntToStr(n) ==
    IF n < 10 THEN <<Digit[n + 1]>>
    ELSE IntToStr(n \div 10) \o <<Digit[(n % 10) + 1]>>

\* f"{n:02d}" for n >= 0
Pad02(n) == IF n < 10 THEN <<"0">> \o IntToStr(n) ELSE IntToStr(n)

----------------------------------------------------------------------------
(* Python float values *)

\* tenths per unit in the representation of a finite float
Scale == 10

Fin(n) == [t |-> "fin", v |-> n]

PosInf == [t |-> "inf", v |-> 1]

NegInf == [t |-> "inf", v |-> -1]

NaN == [t |-> "nan", v |-> 0]

Zero == Fin(0)

IsFinite(x) == x.t = "fin"

\* x + y
FAdd(x, y) ==
    IF x.t = "nan" \/ y.t = "nan" THEN NaN
    ELSE IF x.t = "fin" /\ y.t = "fin" THEN Fin(x.v + y.v)
    ELSE IF x.t = "inf" /\ y.t = "inf" THEN (IF x.v = y.v THEN x ELSE NaN)
    ELSE IF x.t = "inf" THEN x ELSE y

\* -x
FNeg(x) == IF x.t = "nan" THEN NaN ELSE [t |-> x.t, v |-> 0 - x.v]

\* x - y
FSub(x, y) == FAdd(x, FNeg(y))

\* x < 0
FNegative(x) == x.t # "nan" /\ x.v < 0

\* x > 0
FPositive(x) == x.t # "nan" /\ x.v > 0

\* abs(x)
FAbs(x) == IF FNegative(x) THEN FNeg(x) ELSE x

\* int(x) taken as the floor of x
TruncToInt_floor(x) == x.v \div Scale

\* int(x) of a finite float: truncation toward zero
TruncToInt(x) == IF x.v >= 0 THEN x.v \div Scale ELSE 0 - ((0 - x.v) \div Scale)

\* float(s): surrounding whitespace, an optional sign, then inf, infinity, nan
\* (any case) or digits with an optional point; ok = FALSE stands for
\* ValueError.  Exponents and digit-group underscores do not occur in the
\* cell texts of this model.
PyFloat(s) ==
    LET t == Strip(s)
        signed == Len(t) > 0 /\ t[1] \in {"+", "-"}
        neg == signed /\ t[1] = "-"
        body == IF signed THEN Tail(t) ELSE t
        low == Lower(body)
        parts == Split(body, ".")
        whole == parts[1]
        frac == IF Len(parts) = 2 THEN parts[2] ELSE <<>>
        wellformed ==
            /\ Len(parts) <= 2
            /\ Len(whole) + Len(frac) > 0
            /\ \A i \in 1..Len(whole) : IsDigit(whole[i])
            /\ \A i \in 1..Len(frac) : IsDigit(frac[i])
        mag == Scale * DigitsVal(whole) + (IF Len(frac) > 0 THEN DigitVal(frac[1]) ELSE 0)
    IN  IF low \in {<<"i", "n", "f">>, <<"i", "n", "f", "i", "n", "i", "t", "y">>}
        THEN [ok |-> TRUE, x |-> IF neg THEN NegInf ELSE PosInf]
        ELSE IF low = <<"n", "a", "n">> THEN [ok |-> TRUE, x |-> NaN]
        ELSE IF wellformed THEN [ok |-> TRUE, x |-> Fin(IF neg THEN 0 - mag ELSE mag)]
        ELSE [ok |-> FALSE, x |-> Zero]

----------------------------------------------------------------------------
(* Value normalizer and date resolver *)

\* the None cell of a short CSV line
None == <<"None">>

\* before convert_to_spreadsheet_format has run, outside sanitize_for_json,
\* no call served
ServiceIdle ==
    /\ spreadsheet_data = <<>> /\ call_obj = None /\ call_log = <<>>
    /\ store = <<>> /\ last_saved = <<>> /\ store_call = None

\* str(value)
Str(value) == IF value = None THEN <<"N", "o", "n", "e">> ELSE value

\* `not value` for a cell
Falsy(value) == value = None \/ value = <<>>

\* safe_float_convert
safe_float_convert(value) ==
    IF Falsy(value) \/ Strip(Str(value)) = <<>> THEN Zero
    ELSE LET cleaned == Strip(Remove(Remove(Remove(Remove(Str(value), ","), "U00A5"),
                                            "U5186"), "UFFE5"))
         IN  IF Lower(cleaned) \in {<<"n", "o", "n", "e">>, <<"n", "u", "l", "l">>, <<"n", "a", "n">>, <<"-">>, <<>>} THEN Zero
             ELSE IF PyFloat(cleaned).ok THEN PyFloat(cleaned).x
             ELSE Zero

\* "2025-06"
FallbackMonth == <<"2", "0", "2", "5", "-", "0", "6">>

\* a range check that lets the year 2031 through
FormatMonth_wide(year, month) ==
    IF 2020 <= year /\ year <= 2031 /\ 1 <= month /\ month <= 12
    THEN IntToStr(year) \o <<"-">> \o Pad02(month)
    ELSE FallbackMonth

\* f"{year}-{month:02d}" behind the range check of lines 264 and 274
FormatMonth(year, month) ==
    IF 2020 <= year /\ year <= 2030 /\ 1 <= month /\ month <= 12
    THEN IntToStr(year) \o <<"-">> \o Pad02(month)
    ELSE FallbackMonth

\* a resolver that tries the '-' rule on a text with '/' as well
extract_month_from_date_dash_retry(date_str) ==
    LET s == Strip(Str(date_str))
        slash == IF Contains(s, <<"/">>)
                 THEN LET parts == Split(s, "/")
                          ymd == Len(parts[1]) = 4
                          mdy == ~ymd /\ Len(parts) = 3 /\ Len(parts[3]) = 4
                          year == IF ymd THEN PyInt(parts[1])
                                  ELSE IF mdy THEN PyInt(parts[3])
                                  ELSE PyInt(<<"2", "0">> \o parts[1])
                          month == IF mdy THEN PyInt(parts[1]) ELSE PyInt(parts[2])
                      IN  IF year.ok /\ month.ok THEN FormatMonth(year.v, month.v)
                          ELSE FallbackMonth
                 ELSE FallbackMonth
        dash == IF Contains(s, <<"-">>)
                THEN LET parts == Split(s, "-")
                         year == PyInt(parts[1])
                         month == PyInt(parts[2])
                     IN  IF year.ok /\ month.ok THEN FormatMonth(year.v, month.v)
                         ELSE FallbackMonth
                ELSE FallbackMonth
    IN  IF Falsy(date_str) \/ s = <<>> THEN FallbackMonth
        ELSE IF slash # FallbackMonth THEN slash
        ELSE dash

\* extract_month_from_date
extract_month_from_date(date_str) ==
    IF Falsy(date_str) \/ Strip(Str(date_str)) = <<>> THEN FallbackMonth
    ELSE LET s == Strip(Str(date_str))
         IN  IF Contains(s, <<"/">>)
             THEN LET parts == Split(s, "/")
                      ymd == Len(parts[1]) = 4
                      mdy == ~ymd /\ Len(parts) = 3 /\ Len(parts[3]) = 4
                      year == IF ymd THEN PyInt(parts[1])
                              ELSE IF mdy THEN PyInt(parts[3])
                              ELSE PyInt(<<"2", "0">> \o parts[1])
                      month == IF mdy THEN PyInt(parts[1]) ELSE PyInt(parts[2])
                  IN  IF year.ok /\ month.ok THEN FormatMonth(year.v, month.v)
                      ELSE FallbackMonth
             ELSE IF Contains(s, <<"-">>)
             THEN LET parts == Split(s, "-")
                      year == PyInt(parts[1])
                      month == PyInt(parts[2])
                  IN  IF year.ok /\ month.ok THEN FormatMonth(year.v, month.v)
                      ELSE FallbackMonth
             ELSE FallbackMonth

----------------------------------------------------------------------------
(* Rows and aggregates *)

\* A row is the ordered mapping of one CSV line: a sequence of <<column
\* name, cell>> pairs with distinct names.

\* row.get(key, default)
Get(row, key, default) ==
    IF \E i \in 1..Len(row) : row[i][1] = key
    THEN row[CHOOSE i \in 1..Len(row) : row[i][1] = key][2]
    ELSE default

\* the columns of a row whose name is None: csv.DictReader files the cells
\* of a line that is longer than the header under the key None
NoneKeys(row) == {i \in 1..Len(row) : row[i][1] = None}

\* the first index of a non-empty set of column indices
First(hits) == CHOOSE i \in hits : \A j \in hits : i <= j

\* key.replace('\ufeff', '').strip()
CleanKey(key) == Strip(Remove(key, "UFEFF"))

\* the search for the date column, which stops at the first of the columns
\* hits, reaches a column named None: `x in key`, key.lower() and
\* key.replace() raise on it
date_search_raises(row, hits) ==
    NoneKeys(row) # {} /\ (hits = {} \/ First(NoneKeys(row)) < First(hits))

\* 'Amazon' if account_type == 'a_m' else 'Amazon2'
amazon_key(account) == IF account = "a_m" THEN "Amazon" ELSE "Amazon2"

\* 'プラットフォーム手数料_Amazon' if account_type == 'a_m' else 'プラットフォーム手数料_Amazon2'
fee_key(account) == IF account = "a_m" THEN "PlatformFee_Amazon" ELSE "PlatformFee_Amazon2"

\* the suffix of account a_m, whatever the account
account_suffix_shared(account) == "A-M"

\* 'A-M' if account_type == 'a_m' else 'O-AA'
account_suffix(account) == IF account = "a_m" THEN "A-M" ELSE "O-AA"

\* Bucket names, in Latin letters:
\*   Amazon, Amazon2                 'Amazon', 'Amazon2'
\*   MercariShops                    'メルカリShops'
\*   PlatformFee_Amazon, _Amazon2    'プラットフォーム手数料_Amazon', '..._Amazon2'
\*   PlatformFee_Mercari             'プラットフォーム手数料_メルカリ'
\*   ShippingCost                    '運送費（送料）'
\*   GrossProfit                     '売上総利益'
\*   SalesTotal                      '売上高合計'
\*   AmazonFee_<suffix>              'Amazon手数料_<suffix>'
\*   FBAFee_<suffix>                 'FBA手数料_<suffix>'
\*   ShippingFee_<suffix>            '配送料_<suffix>'
\*   PointCost_<suffix>              'ポイント費用_<suffix>'
\*   OtherExpense_<suffix>           'その他経費_<suffix>'
\*   ExpenseTotal_<suffix>           '経費合計_<suffix>'
\*   SponsoredProductAd_<suffix>     'スポンサープロダクト広告_<suffix>'
\*   AdTotal_<suffix>                '広告費合計_<suffix>'

\* the ledger buckets without the shop fee bucket
makad_buckets_partial(account) ==
    {amazon_key(account), "MercariShops", fee_key(account),
     "ShippingCost", "GrossProfit", "SalesTotal"}

\* the dict process_makad_data creates for a new month
makad_buckets(account) ==
    {amazon_key(account), "MercariShops", fee_key(account), "PlatformFee_Mercari",
     "ShippingCost", "GrossProfit", "SalesTotal"}

\* the dict process_mercari_data and process_hanro_data create for a new month
shop_buckets ==
    {"Amazon", "Amazon2", "MercariShops", "PlatformFee_Amazon", "PlatformFee_Amazon2",
     "PlatformFee_Mercari", "ShippingCost", "GrossProfit", "SalesTotal"}

\* the dict process_expense_data_improved creates for a new month
expense_buckets(account) ==
    {"AmazonFee_" \o account_suffix(account), "FBAFee_" \o account_suffix(account),
     "ShippingFee_" \o account_suffix(account), "PointCost_" \o account_suffix(account),
     "OtherExpense_" \o account_suffix(account), "ExpenseTotal_" \o account_suffix(account)}

\* the dict process_ad_data_improved creates for a new month
ad_buckets(account) ==
    {"SponsoredProductAd_" \o account_suffix(account), "AdTotal_" \o account_suffix(account)}

\* if month not in results: results[month] = {bucket: 0, ...}
Touch(res, month, buckets) ==
    IF month \in DOMAIN res THEN res
    ELSE res @@ (month :> [b \in buckets |-> Zero])

----------------------------------------------------------------------------
(* process_makad_data: the ledger classifier *)

\* lines 292-296: the cell of the first column named like a date
makad_date_value(row) ==
    LET hits == {i \in 1..Len(row) :
                    Contains(row[i][1], <<"U65E5">>) \/ Contains(Lower(row[i][1]), <<"d", "a", "t", "e">>)}
    IN  IF hits = {} THEN None ELSE row[First(hits)][2]

\* lines 293-294: `'日' in key` raises TypeError on a column named None, and
\* no handler inside the loop catches it
makad_row_raises(row) ==
    date_search_raises(row, {i \in 1..Len(row) :
        Contains(row[i][1], <<"U65E5">>) \/ Contains(Lower(row[i][1]), <<"d", "a", "t", "e">>)})

\* makad_column with the shipping rule tried before the price rule
makad_column_shipping_first(bk, key, value, account) ==
    LET num_value == safe_float_convert(value)
    IN  IF Contains(key, <<"U9001", "U6599">>)
        THEN [bk EXCEPT ![amazon_key(account)] = FAdd(@, num_value),
                        !["ShippingCost"] = FAdd(@, num_value),
                        !["SalesTotal"] = FAdd(@, num_value)]
        ELSE IF Contains(key, <<"U8CA9", "U58F2", "U4FA1", "U683C">>)
        THEN [bk EXCEPT ![amazon_key(account)] = FAdd(@, num_value),
                        !["SalesTotal"] = FAdd(@, num_value)]
        ELSE IF Contains(key, <<"U30DD", "U30A4", "U30F3", "U30C8">>) \/ Contains(key, <<"U5272", "U5F15">>)
        THEN [bk EXCEPT ![amazon_key(account)] = FSub(@, num_value),
                        !["SalesTotal"] = FSub(@, num_value)]
        ELSE IF Contains(key, <<"U624B", "U6570", "U6599">>) /\ Contains(key, <<"A", "m", "a", "z", "o", "n">>)
        THEN [bk EXCEPT ![fee_key(account)] = FAdd(@, num_value)]
        ELSE IF Contains(key, <<"U5229", "U76CA">>) \/ Contains(key, <<"U7C97", "U5229">>)
        THEN [bk EXCEPT !["GrossProfit"] = FAdd(@, num_value)]
        ELSE bk

\* makad_column with a price rule that leaves the revenue total alone
makad_column_price_untotalled(bk, key, value, account) ==
    LET num_value == safe_float_convert(value)
    IN  IF Contains(key, <<"U8CA9", "U58F2", "U4FA1", "U683C">>)
        THEN [bk EXCEPT ![amazon_key(account)] = FAdd(@, num_value)]
        ELSE IF Contains(key, <<"U9001", "U6599">>)
        THEN [bk EXCEPT ![amazon_key(account)] = FAdd(@, num_value),
                        !["ShippingCost"] = FAdd(@, num_value),
                        !["SalesTotal"] = FAdd(@, num_value)]
        ELSE IF Contains(key, <<"U30DD", "U30A4", "U30F3", "U30C8">>) \/ Contains(key, <<"U5272", "U5F15">>)
        THEN [bk EXCEPT ![amazon_key(account)] = FSub(@, num_value),
                        !["SalesTotal"] = FSub(@, num_value)]
        ELSE IF Contains(key, <<"U624B", "U6570", "U6599">>) /\ Contains(key, <<"A", "m", "a", "z", "o", "n">>)
        THEN [bk EXCEPT ![fee_key(account)] = FAdd(@, num_value)]
        ELSE IF Contains(key, <<"U5229", "U76CA">>) \/ Contains(key, <<"U7C97", "U5229">>)
        THEN [bk EXCEPT !["GrossProfit"] = FAdd(@, num_value)]
        ELSE bk

\* lines 321-337: one column of a row, on the month's buckets bk
makad_column(bk, key, value, account) ==
    LET num_value == safe_float_convert(value)
    IN  IF Contains(key, <<"U8CA9", "U58F2", "U4FA1", "U683C">>)
        THEN [bk EXCEPT ![amazon_key(account)] = FAdd(@, num_value),
                        !["SalesTotal"] = FAdd(@, num_value)]
        ELSE IF Contains(key, <<"U9001", "U6599">>)
        THEN [bk EXCEPT ![amazon_key(account)] = FAdd(@, num_value),
                        !["ShippingCost"] = FAdd(@, num_value),
                        !["SalesTotal"] = FAdd(@, num_value)]
        ELSE IF Contains(key, <<"U30DD", "U30A4", "U30F3", "U30C8">>) \/ Contains(key, <<"U5272", "U5F15">>)
        THEN [bk EXCEPT ![amazon_key(account)] = FSub(@, num_value),
                        !["SalesTotal"] = FSub(@, num_value)]
        ELSE IF Contains(key, <<"U624B", "U6570", "U6599">>) /\ Contains(key, <<"A", "m", "a", "z", "o", "n">>)
        THEN [bk EXCEPT ![fee_key(account)] = FAdd(@, num_value)]
        ELSE IF Contains(key, <<"U5229", "U76CA">>) \/ Contains(key, <<"U7C97", "U5229">>)
        THEN [bk EXCEPT !["GrossProfit"] = FAdd(@, num_value)]
        ELSE bk

RECURSIVE makad_columns(_, _, _, _)
\* line 319: for key, value in row.items(), from the i-th column on
makad_columns(bk, row, i, account) ==
    IF i > Len(row) THEN bk
    ELSE makad_columns(makad_column(bk, row[i][1], row[i][2], account), row, i + 1, account)

\* lines 290-339: the loop body for one row
makad_row(res, row, account) ==
    IF Falsy(makad_date_value(row)) THEN res
    ELSE LET month == extract_month_from_date(Str(makad_date_value(row)))
             touched == Touch(res, month, makad_buckets(account))
         IN  [touched EXCEPT ![month] = makad_columns(@, row, 1, account)]

----------------------------------------------------------------------------
(* process_mercari_data: the shop-sales classifier *)

\* lines 357-361
mercari_date_value(row) ==
    LET hits == {i \in 1..Len(row) :
                    Contains(row[i][1], <<"U65E5">>) \/ Contains(Lower(row[i][1]), <<"d", "a", "t", "e">>)}
    IN  IF hits = {} THEN None ELSE row[First(hits)][2]

\* lines 358-359: `'日' in key` raises TypeError on a column named None, and
\* no handler inside the loop catches it
mercari_row_raises(row) ==
    date_search_raises(row, {i \in 1..Len(row) :
        Contains(row[i][1], <<"U65E5">>) \/ Contains(Lower(row[i][1]), <<"d", "a", "t", "e">>)})

\* mercari_column with the fee rule tried before the sales rule
mercari_column_fee_first(bk, key, value) ==
    LET num_value == safe_float_convert(value)
    IN  IF Contains(key, <<"U8CA9", "U58F2", "U624B", "U6570", "U6599">>) /\ Contains(key, <<"U7A0E", "U8FBC">>)
        THEN [bk EXCEPT !["PlatformFee_Mercari"] = FAdd(@, num_value)]
        ELSE IF Contains(key, <<"U58F2", "U4E0A">>) /\ Contains(key, <<"U7A0E", "U8FBC">>)
        THEN [bk EXCEPT !["MercariShops"] = FAdd(@, num_value),
                        !["SalesTotal"] = FAdd(@, num_value)]
        ELSE IF Contains(key, <<"U8CA9", "U58F2", "U5229", "U76CA">>) \/ Contains(key, <<"U5229", "U76CA">>)
        THEN [bk EXCEPT !["GrossProfit"] = FAdd(@, num_value)]
        ELSE IF Contains(key, <<"U9001", "U6599">>)
        THEN [bk EXCEPT !["ShippingCost"] = FAdd(@, num_value)]
        ELSE bk

\* lines 386-396
mercari_column(bk, key, value) ==
    LET num_value == safe_float_convert(value)
    IN  IF Contains(key, <<"U58F2", "U4E0A">>) /\ Contains(key, <<"U7A0E", "U8FBC">>)
        THEN [bk EXCEPT !["MercariShops"] = FAdd(@, num_value),
                        !["SalesTotal"] = FAdd(@, num_value)]
        ELSE IF Contains(key, <<"U8CA9", "U58F2", "U624B", "U6570", "U6599">>) /\ Contains(key, <<"U7A0E", "U8FBC">>)
        THEN [bk EXCEPT !["PlatformFee_Mercari"] = FAdd(@, num_value)]
        ELSE IF Contains(key, <<"U8CA9", "U58F2", "U5229", "U76CA">>) \/ Contains(key, <<"U5229", "U76CA">>)
        THEN [bk EXCEPT !["GrossProfit"] = FAdd(@, num_value)]
        ELSE IF Contains(key, <<"U9001", "U6599">>)
        THEN [bk EXCEPT !["ShippingCost"] = FAdd(@, num_value)]
        ELSE bk

RECURSIVE mercari_columns(_, _, _)
\* line 384: for key, value in row.items(), from the i-th column on
mercari_columns(bk, row, i) ==
    IF i > Len(row) THEN bk
    ELSE mercari_columns(mercari_column(bk, row[i][1], row[i][2]), row, i + 1)

\* lines 355-398: the loop body for one row
mercari_row(res, row) ==
    IF Falsy(mercari_date_value(row)) THEN res
    ELSE LET month == extract_month_from_date(Str(mercari_date_value(row)))
             touched == Touch(res, month, shop_buckets)
         IN  [touched EXCEPT ![month] = mercari_columns(@, row, 1)]

----------------------------------------------------------------------------
(* process_hanro_data: the multi-marketplace-route classifier *)

\* lines 416-420
hanro_date_value(row) ==
    LET hits == {i \in 1..Len(row) :
                    Contains(row[i][1], <<"A", "t">>) \/ Contains(row[i][1], <<"U65E5">>)}
    IN  IF hits = {} THEN None ELSE row[First(hits)][2]

\* line 444: row.get('mall', '') of a row that has a date
hanro_mall_cell(row) == Get(row, <<"m", "a", "l", "l">>, <<>>)

\* lines 417-418: `'At' in key` raises TypeError on a column named None;
\* line 444: .lower() of a None cell raises AttributeError; no handler inside
\* the loop catches either
hanro_row_raises(row) ==
    \/ date_search_raises(row, {i \in 1..Len(row) :
          Contains(row[i][1], <<"A", "t">>) \/ Contains(row[i][1], <<"U65E5">>)})
    \/ ~Falsy(hanro_date_value(row)) /\ hanro_mall_cell(row) = None

\* hanro_column that books every price under the caller's account
hanro_column_ignoring_mall(bk, key, value, mall, account) ==
    LET num_value == safe_float_convert(value)
    IN  IF Contains(key, <<"n", "e", "t", "P", "r", "i", "c", "e">>) \/ Contains(key, <<"U4FA1", "U683C">>) \/ Contains(key, <<"U58F2", "U4E0A">>)
        THEN [bk EXCEPT ![amazon_key(account)] = FAdd(@, num_value),
                        !["SalesTotal"] = FAdd(@, num_value)]
        ELSE IF Contains(key, <<"p", "r", "o", "f", "i", "t">>) \/ Contains(key, <<"U5229", "U76CA">>)
        THEN [bk EXCEPT !["GrossProfit"] = FAdd(@, num_value)]
        ELSE IF Contains(key, <<"U9001", "U6599">>) \/ Contains(Lower(key), <<"s", "h", "i", "p", "p", "i", "n", "g">>)
        THEN [bk EXCEPT !["ShippingCost"] = FAdd(@, num_value)]
        ELSE bk

\* lines 448-461
hanro_column(bk, key, value, mall, account) ==
    LET num_value == safe_float_convert(value)
    IN  IF Contains(key, <<"n", "e", "t", "P", "r", "i", "c", "e">>) \/ Contains(key, <<"U4FA1", "U683C">>) \/ Contains(key, <<"U58F2", "U4E0A">>)
        THEN IF mall = <<"m", "e", "r", "c", "a", "r", "i">>
             THEN [bk EXCEPT !["MercariShops"] = FAdd(@, num_value),
                             !["SalesTotal"] = FAdd(@, num_value)]
             ELSE [bk EXCEPT ![amazon_key(account)] = FAdd(@, num_value),
                             !["SalesTotal"] = FAdd(@, num_value)]
        ELSE IF Contains(key, <<"p", "r", "o", "f", "i", "t">>) \/ Contains(key, <<"U5229", "U76CA">>)
        THEN [bk EXCEPT !["GrossProfit"] = FAdd(@, num_value)]
        ELSE IF Contains(key, <<"U9001", "U6599">>) \/ Contains(Lower(key), <<"s", "h", "i", "p", "p", "i", "n", "g">>)
        THEN [bk EXCEPT !["ShippingCost"] = FAdd(@, num_value)]
        ELSE bk

RECURSIVE hanro_columns(_, _, _, _, _)
\* line 446: for key, value in row.items(), from the i-th column on
hanro_columns(bk, row, i, mall, account) ==
    IF i > Len(row) THEN bk
    ELSE hanro_columns(hanro_column(bk, row[i][1], row[i][2], mall, account),
                       row, i + 1, mall, account)

\* lines 414-463: the loop body for one row that does not raise
hanro_row(res, row, account) ==
    IF Falsy(hanro_date_value(row)) THEN res
    ELSE LET month == extract_month_from_date(Str(hanro_date_value(row)))
             touched == Touch(res, month, shop_buckets)
             mall == Lower(hanro_mall_cell(row))
         IN  [touched EXCEPT ![month] = hanro_columns(@, row, 1, mall, account)]

----------------------------------------------------------------------------
(* process_expense_data_improved: the transaction/expense classifier *)

\* line 98
expense_date_terms == {<<"U65E5", "U4ED8">>, <<"U6642", "U9593">>, <<"d", "a", "t", "e">>, <<"D", "a", "t", "e">>, <<"T", "i", "m", "e">>}

\* lines 95-101: the first date-named column that holds a value
expense_date_value(row) ==
    LET hits == {i \in 1..Len(row) :
                    /\ ContainsAny(CleanKey(row[i][1]), expense_date_terms)
                    /\ ~Falsy(row[i][2])}
    IN  IF hits = {} THEN None ELSE row[First(hits)][2]

\* line 139: ['fba', 'フルフィルメント', '在庫', '保管', '出荷']
fba_terms == {<<"f", "b", "a">>, <<"U30D5", "U30EB", "U30D5", "U30A3", "U30EB", "U30E1", "U30F3", "U30C8">>, <<"U5728", "U5EAB">>, <<"U4FDD", "U7BA1">>, <<"U51FA", "U8377">>}

\* line 141: ['成約', 'リファーラル', '販売手数料', 'commission']
commission_terms == {<<"U6210", "U7D04">>, <<"U30EA", "U30D5", "U30A1", "U30FC", "U30E9", "U30EB">>, <<"U8CA9", "U58F2", "U624B", "U6570", "U6599">>, <<"c", "o", "m", "m", "i", "s", "s", "i", "o", "n">>}

\* line 143: ['配送', 'shipping', '送料', '発送']
shipping_terms == {<<"U914D", "U9001">>, <<"s", "h", "i", "p", "p", "i", "n", "g">>, <<"U9001", "U6599">>, <<"U767A", "U9001">>}

\* line 145: ['ポイント', 'point']
point_terms == {<<"U30DD", "U30A4", "U30F3", "U30C8">>, <<"p", "o", "i", "n", "t">>}

\* expense_category with the shipping keywords tried first
expense_category_shipping_first(combined) ==
    IF ContainsAny(combined, shipping_terms) THEN "ShippingFee_"
    ELSE IF ContainsAny(combined, fba_terms) THEN "FBAFee_"
    ELSE IF ContainsAny(combined, commission_terms) THEN "AmazonFee_"
    ELSE IF ContainsAny(combined, point_terms) THEN "PointCost_"
    ELSE "OtherExpense_"

\* lines 139-148: the category bucket of a combined text
expense_category(combined) ==
    IF ContainsAny(combined, fba_terms) THEN "FBAFee_"
    ELSE IF ContainsAny(combined, commission_terms) THEN "AmazonFee_"
    ELSE IF ContainsAny(combined, shipping_terms) THEN "ShippingFee_"
    ELSE IF ContainsAny(combined, point_terms) THEN "PointCost_"
    ELSE "OtherExpense_"

\* lines 134-136: f"{clean_key} {transaction_type} {description}".lower()
expense_combined(key, row) ==
    Lower(CleanKey(key) \o <<" ">> \o Str(Get(row, <<"U30C8", "U30E9", "U30F3", "U30B6", "U30AF", "U30B7", "U30E7", "U30F3", "U306E", "U7A2E", "U985E">>, <<>>))
                        \o <<" ">> \o Str(Get(row, <<"U5546", "U54C1", "U306E", "U8AAC", "U660E">>, <<>>)))

\* expense_column that reads the net-amount column only
expense_column_net_only(bk, key, value, row, account) ==
    LET num_value == safe_float_convert(value)
        abs_amount == FAbs(num_value)
        category == expense_category(expense_combined(key, row)) \o account_suffix(account)
        total == "ExpenseTotal_" \o account_suffix(account)
    IN  IF Falsy(value) \/ CleanKey(key) # <<"U5408", "U8A08">> THEN bk
        ELSE IF FNegative(num_value)
        THEN [bk EXCEPT ![category] = FAdd(@, abs_amount),
                        ![total] = FAdd(@, abs_amount)]
        ELSE bk

\* expense_column that leaves the catch-all category out of the total
expense_column_other_untotalled(bk, key, value, row, account) ==
    LET num_value == safe_float_convert(value)
        abs_amount == FAbs(num_value)
        category == expense_category(expense_combined(key, row)) \o account_suffix(account)
        total == "ExpenseTotal_" \o account_suffix(account)
    IN  IF Falsy(value) THEN bk
        ELSE IF FNegative(num_value)
        THEN IF expense_category(expense_combined(key, row)) = "OtherExpense_"
             THEN [bk EXCEPT ![category] = FAdd(@, abs_amount)]
             ELSE [bk EXCEPT ![category] = FAdd(@, abs_amount),
                             ![total] = FAdd(@, abs_amount)]
        ELSE bk

\* expense_column that books every nonzero value, whatever its sign
expense_column_any_sign(bk, key, value, row, account) ==
    LET num_value == safe_float_convert(value)
        abs_amount == FAbs(num_value)
        category == expense_category(expense_combined(key, row)) \o account_suffix(account)
        total == "ExpenseTotal_" \o account_suffix(account)
    IN  IF Falsy(value) THEN bk
        ELSE IF FNegative(num_value) \/ FPositive(num_value)
        THEN [bk EXCEPT ![category] = FAdd(@, abs_amount),
                        ![total] = FAdd(@, abs_amount)]
        ELSE bk

\* lines 123-150: one column of a row, on the month's buckets bk
expense_column(bk, key, value, row, account) ==
    LET num_value == safe_float_convert(value)
        abs_amount == FAbs(num_value)
        category == expense_category(expense_combined(key, row)) \o account_suffix(account)
        total == "ExpenseTotal_" \o account_suffix(account)
    IN  IF Falsy(value) THEN bk
        ELSE IF FNegative(num_value)
        THEN [bk EXCEPT ![category] = FAdd(@, abs_amount),
                        ![total] = FAdd(@, abs_amount)]
        ELSE bk

RECURSIVE expense_columns(_, _, _, _)
\* line 122: for key, value in row.items(), from the i-th column on; line
\* 126 raises AttributeError on a column named None whose cell is not blank,
\* and the handler of line 156 leaves the rest of the row unread
expense_columns(bk, row, i, account) ==
    IF i > Len(row) THEN bk
    ELSE IF row[i][1] = None /\ ~Falsy(row[i][2]) THEN bk
    ELSE expense_columns(expense_column(bk, row[i][1], row[i][2], row, account),
                         row, i + 1, account)

\* line 97: key.replace raises AttributeError on a column named None; the
\* handler of line 156 skips the row
expense_row_raises(row) ==
    date_search_raises(row, {i \in 1..Len(row) :
        /\ ContainsAny(CleanKey(row[i][1]), expense_date_terms)
        /\ ~Falsy(row[i][2])})

\* lines 92-158: the loop body for one row
expense_row(res, row, account) ==
    IF expense_row_raises(row) \/ Falsy(expense_date_value(row)) THEN res
    ELSE LET month == extract_month_from_date(Str(expense_date_value(row)))
             touched == Touch(res, month, expense_buckets(account))
         IN  [touched EXCEPT ![month] = expense_columns(@, row, 1, account)]

----------------------------------------------------------------------------
(* process_ad_data_improved: the advertising-spend classifier *)

\* line 203
ad_date_terms == {<<"U65E5", "U4ED8">>, <<"U958B", "U59CB">>, <<"U7D42", "U4E86">>, <<"d", "a", "t", "e">>, <<"D", "a", "t", "e">>, <<"S", "t", "a", "r", "t">>, <<"E", "n", "d">>}

\* line 245: ['支出', 'Spend', '費用', 'Cost', '広告費', 'Ad']
spend_terms == {<<"U652F", "U51FA">>, <<"S", "p", "e", "n", "d">>, <<"U8CBB", "U7528">>, <<"C", "o", "s", "t">>, <<"U5E83", "U544A", "U8CBB">>, <<"A", "d">>}

\* line 247: ['日付', 'Date', '率', 'Rate', '%', 'ID', 'インプレッション', 'クリック数', '売上']
skip_terms == {<<"U65E5", "U4ED8">>, <<"D", "a", "t", "e">>, <<"U7387">>, <<"R", "a", "t", "e">>, <<"%">>, <<"I", "D">>, <<"U30A4", "U30F3", "U30D7", "U30EC", "U30C3", "U30B7", "U30E7", "U30F3">>,
               <<"U30AF", "U30EA", "U30C3", "U30AF", "U6570">>, <<"U58F2", "U4E0A">>}

\* lines 200-218: the first date-named column that holds a value, else the
\* first cell that reads as a date of a month other than the fallback
ad_date_value(row) ==
    LET named == {i \in 1..Len(row) :
                     /\ ContainsAny(CleanKey(row[i][1]), ad_date_terms)
                     /\ ~Falsy(row[i][2])}
        dated == {i \in 1..Len(row) :
                     /\ ~Falsy(row[i][2])
                     /\ (Contains(Str(row[i][2]), <<"/">>) \/ Contains(Str(row[i][2]), <<"-">>))
                     /\ extract_month_from_date(Str(row[i][2])) # FallbackMonth}
    IN  IF named # {} THEN row[First(named)][2]
        ELSE IF dated # {} THEN row[First(dated)][2]
        ELSE None

\* ad_column that does not stop at the first spend column of a row
ad_column_every_match(acc, key, value, account) ==
    LET clean_key == CleanKey(key)
        num_value == safe_float_convert(value)
        sponsored == "SponsoredProductAd_" \o account_suffix(account)
        total == "AdTotal_" \o account_suffix(account)
    IN  IF Falsy(value) THEN acc
        ELSE IF /\ FPositive(num_value)
                /\ ContainsAny(clean_key, spend_terms)
                /\ ~ContainsAny(clean_key, skip_terms)
        THEN [bk |-> [acc.bk EXCEPT ![sponsored] = FAdd(@, num_value),
                                    ![total] = FAdd(@, num_value)],
              found |-> TRUE]
        ELSE acc

\* lines 237-250: one column of a row; acc.bk the month's buckets, acc.found
\* the flag ad_spend_found
ad_column(acc, key, value, account) ==
    LET clean_key == CleanKey(key)
        num_value == safe_float_convert(value)
        sponsored == "SponsoredProductAd_" \o account_suffix(account)
        total == "AdTotal_" \o account_suffix(account)
    IN  IF Falsy(value) \/ acc.found THEN acc
        ELSE IF /\ FPositive(num_value)
                /\ ContainsAny(clean_key, spend_terms)
                /\ ~ContainsAny(clean_key, skip_terms)
        THEN [bk |-> [acc.bk EXCEPT ![sponsored] = FAdd(@, num_value),
                                    ![total] = FAdd(@, num_value)],
              found |-> TRUE]
        ELSE acc

RECURSIVE ad_columns(_, _, _, _)
\* line 236: for key, value in row.items(), from the i-th column on; line
\* 240 raises AttributeError on a column named None that is reached with a
\* cell that is not blank before any spend was found, and the handler of
\* line 256 leaves the rest of the row unread
ad_columns(acc, row, i, account) ==
    IF i > Len(row) THEN acc
    ELSE IF row[i][1] = None /\ ~Falsy(row[i][2]) /\ ~acc.found THEN acc
    ELSE ad_columns(ad_column(acc, row[i][1], row[i][2], account), row, i + 1, account)

\* line 202: key.replace raises AttributeError on a column named None; the
\* handler of line 256 skips the row
ad_row_raises(row) ==
    date_search_raises(row, {i \in 1..Len(row) :
        /\ ContainsAny(CleanKey(row[i][1]), ad_date_terms)
        /\ ~Falsy(row[i][2])})

\* lines 197-258: the loop body for one row
ad_row(res, row, account) ==
    IF ad_row_raises(row) \/ Falsy(ad_date_value(row)) THEN res
    ELSE LET month == extract_month_from_date(Str(ad_date_value(row)))
             touched == Touch(res, month, ad_buckets(account))
         IN  [touched EXCEPT ![month] =
                 ad_columns([bk |-> @, found |-> FALSE], row, 1, account).bk]

----------------------------------------------------------------------------
(* Input tables: the rows safe_read_csv hands to a classifier *)

\* one column of a row
Col(name, cell) == <<name, cell>>

\* the ledger row of the end-to-end scenario
LedgerScenarioRow ==
    << Col(<<"U8CA9", "U58F2", "U4FA1", "U683C">>, <<"1", ",", "0", "0", "0">>), Col(<<"U6CE8", "U6587", "U65E5">>, <<"2", "0", "2", "5", "/", "0", "7", "/", "1", "5">>) >>

\* a ledger row whose column names hold the keywords of several rules
LedgerOverlapRow ==
    << Col(<<"O", "r", "d", "e", "r", " ", "D", "a", "t", "e">>, <<"0", "7", "/", "1", "5", "/", "2", "0", "2", "5">>), Col(<<"U9001", "U6599", "U8FBC", "U8CA9", "U58F2", "U4FA1", "U683C">>, <<"2", ",", "0", "0", "0">>),
       Col(<<"A", "m", "a", "z", "o", "n", "U624B", "U6570", "U6599", "U5272", "U5F15">>, <<"3", "0">>), Col(<<"U8CA9", "U58F2", "U624B", "U6570", "U6599">>, <<"1", "0">>), Col(<<"U5229", "U76CA", "U7387">>, <<"2", "5">>) >>

\* a ledger row with every kind of column
LedgerFullRow ==
    << Col(<<"U6CE8", "U6587", "U65E5">>, <<"2", "0", "2", "5", "/", "0", "7", "/", "2", "0">>), Col(<<"U9001", "U6599">>, <<"5", "0", "0">>), Col(<<"U30DD", "U30A4", "U30F3", "U30C8">>, <<"1", "0", "0">>),
       Col(<<"A", "m", "a", "z", "o", "n", "U624B", "U6570", "U6599">>, <<"1", "5", "0">>), Col(<<"U5229", "U76CA">>, <<"3", "0", "0">>) >>

\* a ledger row that contributes half a yen
LedgerHalfRow ==
    << Col(<<"U6CE8", "U6587", "U65E5">>, <<"2", "0", "2", "5", "/", "0", "8", "/", "0", "1">>), Col(<<"U8CA9", "U58F2", "U4FA1", "U683C">>, <<"0", ".", "5">>) >>

\* a ledger row that contributes minus one and a half yen
LedgerMinusRow ==
    << Col(<<"U6CE8", "U6587", "U65E5">>, <<"2", "0", "2", "5", "/", "0", "9", "/", "0", "1">>), Col(<<"U8CA9", "U58F2", "U4FA1", "U683C">>, <<"-", "1", ".", "5">>), Col(<<"U7C97", "U5229">>, <<"U00A5", "2", "0", "0">>) >>

\* a ledger line with a cell more than the header and no date column
LedgerLongRow ==
    << Col(<<"U8CA9", "U58F2", "U4FA1", "U683C">>, <<"1", "0", "0">>), Col(None, <<"[", "'", "9", "'", "]">>) >>

\* rows of a ledger export
MakadRows ==
    { LedgerScenarioRow, LedgerOverlapRow, LedgerFullRow, LedgerHalfRow, LedgerMinusRow,
      << Col(<<"U8CA9", "U58F2", "U4FA1", "U683C">>, <<"1", "0", "0">>), Col(<<"U9001", "U6599">>, <<"5", "0">>) >>,
      << Col(<<"U6CE8", "U6587", "U65E5">>, <<>>), Col(<<"U8CA9", "U58F2", "U4FA1", "U683C">>, <<"1", "0", "0">>) >>,
      << Col(<<"U6CE8", "U6587", "U65E5">>, <<"2", "0", "2", "5", "/", "0", "7", "/", "1", "5">>), Col(<<"U8CA9", "U58F2", "U4FA1", "U683C">>, <<"i", "n", "f">>) >>,
      << Col(<<"U6CE8", "U6587", "U65E5">>, <<"g", "a", "r", "b", "a", "g", "e">>), Col(<<"U5272", "U5F15">>, <<"a", "b", "c">>), Col(<<"U9001", "U6599">>, <<"1", "0", "0", "U5186">>) >>,
      << Col(<<"U5229", "U76CA", "U78BA", "U5B9A", "U65E5">>, <<"2", "5", "/", "0", "7">>), Col(<<"U8CA9", "U58F2", "U4FA1", "U683C">>, <<"3", "0", "0">>) >>,
      LedgerLongRow }

\* a shop-sales row with a column for every rule
ShopFullRow ==
    << Col(<<"U6CE8", "U6587", "U65E5">>, <<"2", "0", "2", "5", "/", "0", "7", "/", "1", "5">>), Col(<<"U58F2", "U4E0A", "(", "U7A0E", "U8FBC", ")">>, <<"1", ",", "0", "0", "0">>),
       Col(<<"U8CA9", "U58F2", "U624B", "U6570", "U6599", "(", "U7A0E", "U8FBC", ")">>, <<"1", "0", "0">>), Col(<<"U8CA9", "U58F2", "U5229", "U76CA">>, <<"7", "0", "0">>), Col(<<"U9001", "U6599">>, <<"2", "0", "0">>) >>

\* a shop-sales row whose column names hold the keywords of several rules,
\* or only a part of the keywords of a rule
ShopOverlapRow ==
    << Col(<<"U8CFC", "U5165", "U65E5", "U6642">>, <<"2", "0", "2", "5", "-", "0", "8", "-", "0", "3", " ", "1", "0", ":", "0", "0">>), Col(<<"U58F2", "U4E0A", "U8CA9", "U58F2", "U624B", "U6570", "U6599", "(", "U7A0E", "U8FBC", ")">>, <<"5", "0">>),
       Col(<<"U58F2", "U4E0A">>, <<"9", "9", "9">>), Col(<<"U8CA9", "U58F2", "U624B", "U6570", "U6599">>, <<"7", "7">>), Col(<<"U9001", "U6599", "U5229", "U76CA">>, <<"3", "0">>) >>

\* a shop-sales line with a cell more than the header and no date column
ShopLongRow ==
    << Col(<<"U58F2", "U4E0A", "(", "U7A0E", "U8FBC", ")">>, <<"1", "0", "0">>), Col(None, <<"[", "'", "9", "'", "]">>) >>

\* rows of a shop-sales export
MercariRows ==
    { ShopFullRow, ShopOverlapRow,
      << Col(<<"o", "r", "d", "e", "r", "_", "d", "a", "t", "e">>, <<"2", "0", "2", "5", "/", "7", "/", "1">>), Col(<<"U9001", "U6599">>, <<"0", ".", "5">>) >>,
      << Col(<<"U6CE8", "U6587", "U65E5">>, <<"2", "0", "2", "5", "/", "0", "7", "/", "1", "5">>), Col(<<"U5229", "U76CA">>, <<"-", "1", ".", "5">>) >>,
      << Col(<<"U58F2", "U4E0A", "(", "U7A0E", "U8FBC", ")">>, <<"1", "0", "0">>) >>,
      << Col(<<"U6CE8", "U6587", "U65E5">>, <<>>), Col(<<"U58F2", "U4E0A", "(", "U7A0E", "U8FBC", ")">>, <<"1", "0", "0">>) >>,
      << Col(<<"U6CE8", "U6587", "U65E5">>, <<"2", "0", "2", "5", "/", "0", "7", "/", "1", "5">>), Col(<<"U58F2", "U4E0A", "(", "U7A0E", "U8FBC", ")">>, <<"I", "n", "f", "i", "n", "i", "t", "y">>) >>,
      << Col(<<"U6CE8", "U6587", "U65E5">>, <<"2", "0", "2", "5", "/", "1", "3", "/", "0", "1">>), Col(<<"U58F2", "U4E0A", "(", "U7A0E", "U8FBC", ")">>, <<"UFFE5", "4", "0", "0">>) >>,
      ShopLongRow }

\* a multi-route row sold on the shop marketplace
RouteMercariRow ==
    << Col(<<"c", "r", "e", "a", "t", "e", "d", "A", "t">>, <<"2", "0", "2", "5", "-", "0", "7", "-", "1", "5", "T", "1", "0", ":", "0", "0", ":", "0", "0">>), Col(<<"m", "a", "l", "l">>, <<"m", "e", "r", "c", "a", "r", "i">>),
       Col(<<"n", "e", "t", "P", "r", "i", "c", "e">>, <<"1", ",", "0", "0", "0">>), Col(<<"p", "r", "o", "f", "i", "t">>, <<"3", "0", "0">>), Col(<<"s", "h", "i", "p", "p", "i", "n", "g", "F", "e", "e">>, <<"2", "0", "0">>) >>

\* a multi-route row sold on another marketplace
RouteAmazonRow ==
    << Col(<<"c", "r", "e", "a", "t", "e", "d", "A", "t">>, <<"2", "0", "2", "5", "-", "0", "7", "-", "1", "6">>), Col(<<"m", "a", "l", "l">>, <<"a", "m", "a", "z", "o", "n">>),
       Col(<<"n", "e", "t", "P", "r", "i", "c", "e">>, <<"2", ",", "0", "0", "0">>), Col(<<"p", "r", "o", "f", "i", "t">>, <<"5", "0", "0">>), Col(<<"S", "h", "i", "p", "p", "i", "n", "g">>, <<"1", "0", "0">>) >>

\* a multi-route line shorter than the header: the cell of 'mall' is None
RouteShortRow ==
    << Col(<<"c", "r", "e", "a", "t", "e", "d", "A", "t">>, <<"2", "0", "2", "5", "-", "0", "7", "-", "1", "5">>), Col(<<"n", "e", "t", "P", "r", "i", "c", "e">>, <<"1", "0", "0">>), Col(<<"m", "a", "l", "l">>, None) >>

\* a multi-route line with a cell more than the header, after its date
RouteLongRow ==
    << Col(<<"c", "r", "e", "a", "t", "e", "d", "A", "t">>, <<"2", "0", "2", "5", "-", "0", "7", "-", "1", "5">>), Col(<<"n", "e", "t", "P", "r", "i", "c", "e">>, <<"1", "0", "0">>), Col(<<"m", "a", "l", "l">>, <<"a", "m", "a", "z", "o", "n">>),
       Col(None, <<"[", "'", "9", "'", "]">>) >>

\* rows of a multi-marketplace-route export
HanroRows ==
    { RouteMercariRow, RouteAmazonRow,
      << Col(<<"U6CE8", "U6587", "U65E5">>, <<"2", "0", "2", "5", "/", "0", "8", "/", "0", "1">>), Col(<<"m", "a", "l", "l">>, <<"M", "e", "r", "c", "a", "r", "i">>),
         Col(<<"U8CA9", "U58F2", "U4FA1", "U683C">>, <<"0", ".", "5">>), Col(<<"U5229", "U76CA">>, <<"0", ".", "5">>) >>,
      << Col(<<"U6CE8", "U6587", "U65E5">>, <<"2", "0", "2", "5", "/", "0", "8", "/", "0", "1">>), Col(<<"U58F2", "U4E0A">>, <<"-", "1", ".", "5">>), Col(<<"U9001", "U6599">>, <<"5", "0">>) >>,
      << Col(<<"c", "r", "e", "a", "t", "e", "d", "A", "t">>, <<"2", "0", "2", "5", "/", "0", "7", "/", "0", "1">>), Col(<<"m", "a", "l", "l">>, <<"m", "e", "r", "c", "a", "r", "i">>),
         Col(<<"U58F2", "U4E0A", "U7DCF", "U5229", "U76CA">>, <<"4", "0", "0">>), Col(<<"p", "r", "o", "f", "i", "t", "U9001", "U6599">>, <<"2", "0">>) >>,
      << Col(<<"c", "r", "e", "a", "t", "e", "d", "A", "t">>, <<"2", "0", "2", "5", "-", "0", "7", "-", "1", "5">>), Col(<<"m", "a", "l", "l">>, <<" ", "m", "e", "r", "c", "a", "r", "i">>), Col(<<"n", "e", "t", "P", "r", "i", "c", "e">>, <<"1", "0", "0">>) >>,
      << Col(<<"m", "a", "l", "l">>, <<"m", "e", "r", "c", "a", "r", "i">>), Col(<<"n", "e", "t", "P", "r", "i", "c", "e">>, <<"1", "0", "0">>) >>,
      << Col(<<"c", "r", "e", "a", "t", "e", "d", "A", "t">>, <<>>), Col(<<"n", "e", "t", "P", "r", "i", "c", "e">>, <<"1", "0", "0">>) >>,
      RouteShortRow, RouteLongRow,
      << Col(<<"c", "r", "e", "a", "t", "e", "d", "A", "t">>, <<"2", "0", "2", "5", "-", "0", "7", "-", "1", "5">>), Col(<<"m", "a", "l", "l">>, <<"a", "m", "a", "z", "o", "n">>), Col(<<"n", "e", "t", "P", "r", "i", "c", "e">>, <<"-", "i", "n", "f">>) >> }

\* an order of the transaction report: negative fee columns, positive net amount
ExpenseOrderRow ==
    << Col(<<"UFEFF", "U65E5", "U4ED8", "/", "U6642", "U9593">>, <<"2", "0", "2", "5", "/", "0", "7", "/", "1", "5", " ", "1", "0", ":", "0", "0", ":", "0", "0", " ", "J", "S", "T">>), Col(<<"U30C8", "U30E9", "U30F3", "U30B6", "U30AF", "U30B7", "U30E7", "U30F3", "U306E", "U7A2E", "U985E">>, <<"U6CE8", "U6587">>),
       Col(<<"U5546", "U54C1", "U306E", "U8AAC", "U660E">>, <<"U5546", "U54C1", "A">>), Col(<<"U624B", "U6570", "U6599">>, <<"-", "1", "0", "0">>), Col(<<"F", "B", "A", " ", "U624B", "U6570", "U6599">>, <<"-", "5", "0">>),
       Col(<<"A", "m", "a", "z", "o", "n", "U30DD", "U30A4", "U30F3", "U30C8", "U306E", "U8CBB", "U7528">>, <<"-", "1", "0">>), Col(<<"U5408", "U8A08">>, <<"8", "4", "0">>) >>

\* a fee of the transaction report: the fee column and the net amount are negative
ExpenseFeeRow ==
    << Col(<<"U65E5", "U4ED8">>, <<"2", "0", "2", "5", "/", "0", "7", "/", "1", "5">>), Col(<<"U30C8", "U30E9", "U30F3", "U30B6", "U30AF", "U30B7", "U30E7", "U30F3", "U306E", "U7A2E", "U985E">>, <<"U6CE8", "U6587">>),
       Col(<<"U5546", "U54C1", "U306E", "U8AAC", "U660E">>, <<"U5546", "U54C1", "A">>), Col(<<"U624B", "U6570", "U6599">>, <<"-", "1", "0", "0">>), Col(<<"U5408", "U8A08">>, <<"-", "1", "0", "0">>) >>

\* an expense whose text holds a fulfillment keyword ('FBA', '在庫') and a
\* shipping keyword ('配送')
ExpenseFbaShippingRow ==
    << Col(<<"U65E5", "U4ED8">>, <<"2", "0", "2", "5", "/", "0", "7", "/", "1", "5">>), Col(<<"U30C8", "U30E9", "U30F3", "U30B6", "U30AF", "U30B7", "U30E7", "U30F3", "U306E", "U7A2E", "U985E">>, <<"F", "B", "A", "U5728", "U5EAB", "U95A2", "U9023", "U306E", "U624B", "U6570", "U6599">>),
       Col(<<"U5546", "U54C1", "U306E", "U8AAC", "U660E">>, <<"U914D", "U9001", "U4EE3", "U884C", "U624B", "U6570", "U6599">>), Col(<<"U5408", "U8A08">>, <<"-", "3", "0", "0">>) >>

\* a row whose point-cost field is positive and that has no negative amount
ExpensePointRow ==
    << Col(<<"U65E5", "U4ED8">>, <<"2", "0", "2", "5", "/", "0", "8", "/", "0", "1">>), Col(<<"A", "m", "a", "z", "o", "n", "U30DD", "U30A4", "U30F3", "U30C8", "U306E", "U8CBB", "U7528">>, <<"5", "0">>), Col(<<"U5408", "U8A08">>, <<"1", "0", "0">>) >>

\* an expense line with a cell more than the header, after its date and a
\* negative amount
ExpenseLongRow ==
    << Col(<<"U65E5", "U4ED8">>, <<"2", "0", "2", "5", "/", "0", "7", "/", "1", "5">>), Col(<<"U5408", "U8A08">>, <<"-", "1", "0", "0">>), Col(None, <<"[", "'", "-", "9", "'", "]">>) >>

\* rows of a transaction/expense export
ExpenseRows ==
    { ExpenseOrderRow, ExpenseFeeRow, ExpenseFbaShippingRow, ExpensePointRow,
      << Col(<<"U65E5", "U4ED8">>, <<"2", "0", "2", "5", "/", "0", "8", "/", "0", "1">>), Col(<<"U30C8", "U30E9", "U30F3", "U30B6", "U30AF", "U30B7", "U30E7", "U30F3", "U306E", "U7A2E", "U985E">>, <<"U914D", "U9001", "U30B5", "U30FC", "U30D3", "U30B9">>),
         Col(<<"U5546", "U54C1", "U306E", "U8AAC", "U660E">>, <<>>), Col(<<"U5408", "U8A08">>, <<"-", "0", ".", "5">>) >>,
      << Col(<<"U65E5", "U4ED8">>, <<"2", "0", "2", "5", "/", "0", "8", "/", "0", "1">>), Col(<<"U30C8", "U30E9", "U30F3", "U30B6", "U30AF", "U30B7", "U30E7", "U30F3", "U306E", "U7A2E", "U985E">>, <<"U6CE8", "U6587">>),
         Col(<<"U5546", "U54C1", "U306E", "U8AAC", "U660E">>, <<"U30EA", "U30D5", "U30A1", "U30FC", "U30E9", "U30EB", " ", "U914D", "U9001", " ", "U30DD", "U30A4", "U30F3", "U30C8">>), Col(<<"U5408", "U8A08">>, <<"-", "2", "0", "0">>) >>,
      << Col(<<"U65E5", "U4ED8">>, <<"2", "0", "2", "5", "-", "0", "9", "-", "0", "1">>), Col(<<"U5546", "U54C1", "U306E", "U8AAC", "U660E">>, <<"U9001", "U6599", "U30DD", "U30A4", "U30F3", "U30C8">>), Col(<<"U5408", "U8A08">>, <<"-", "3", "0">>) >>,
      << Col(<<"U65E5", "U4ED8">>, <<"2", "0", "2", "5", "-", "0", "9", "-", "0", "1">>), Col(<<"U30C8", "U30E9", "U30F3", "U30B6", "U30AF", "U30B7", "U30E7", "U30F3", "U306E", "U7A2E", "U985E">>, <<"P", "o", "i", "n", "t", "s">>), Col(<<"U5408", "U8A08">>, <<"-", "5">>) >>,
      << Col(<<"U5546", "U54C1", "U306E", "U8AAC", "U660E">>, <<"U5546", "U54C1", "A">>), Col(<<"U5408", "U8A08">>, <<"-", "1", "0", "0">>) >>,
      << Col(<<"U65E5", "U4ED8">>, <<"2", "0", "2", "5", "/", "0", "7", "/", "1", "5">>), Col(<<"U5546", "U54C1", "U306E", "U8AAC", "U660E">>, <<"U8ABF", "U6574">>), Col(<<"U5408", "U8A08">>, <<"-", "i", "n", "f">>) >>,
      ExpenseLongRow }

\* an advertising row with three spend columns
AdThreeSpendRow ==
    << Col(<<"U65E5", "U4ED8">>, <<"2", "0", "2", "5", "/", "0", "7", "/", "0", "2">>), Col(<<"U652F", "U51FA">>, <<"3", "0", "0">>), Col(<<"U5E83", "U544A", "U8CBB">>, <<"2", "0", "0">>),
       Col(<<"C", "o", "s", "t">>, <<"1", "0", "0">>) >>

\* an advertising row whose first spend column is zero
AdZeroFirstRow ==
    << Col(<<"D", "a", "t", "e">>, <<"2", "0", "2", "5", "-", "0", "8", "-", "0", "1">>), Col(<<"S", "p", "e", "n", "d">>, <<"0">>), Col(<<"U652F", "U51FA", "(", "U63DB", "U7B97", ")">>, <<"4", "5">>) >>

\* an advertising row whose only spend column is negative
AdNegativeRow ==
    << Col(<<"D", "a", "t", "e">>, <<"2", "0", "2", "5", "-", "1", "0", "-", "0", "1">>), Col(<<"S", "p", "e", "n", "d">>, <<"-", "1", "0", "0">>) >>

\* an advertising line with a cell more than the header, no date-named
\* column and a cell that reads as a date
AdLongRow ==
    << Col(<<"U671F", "U9593">>, <<"2", "0", "2", "5", "/", "0", "9", "/", "0", "1">>), Col(<<"U652F", "U51FA">>, <<"1", "0", "0">>), Col(None, <<"[", "'", "9", "'", "]">>) >>

\* rows of an advertising-spend export
AdRows ==
    { AdThreeSpendRow, AdZeroFirstRow, AdNegativeRow,
      << Col(<<"U958B", "U59CB", "U65E5">>, <<"2", "0", "2", "5", "/", "0", "7", "/", "0", "1">>), Col(<<"U7D42", "U4E86", "U65E5">>, <<"2", "0", "2", "5", "/", "0", "7", "/", "3", "1">>), Col(<<"U30AD", "U30E3", "U30F3", "U30DA", "U30FC", "U30F3", "U540D">>, <<"c", "a", "m", "p">>),
         Col(<<"U30A4", "U30F3", "U30D7", "U30EC", "U30C3", "U30B7", "U30E7", "U30F3">>, <<"1", "0", "0", "0">>), Col(<<"U30AF", "U30EA", "U30C3", "U30AF", "U6570">>, <<"5", "0">>), Col(<<"U652F", "U51FA">>, <<"1", ",", "2", "0", "0">>),
         Col(<<"U58F2", "U4E0A">>, <<"5", "0", "0", "0">>) >>,
      << Col(<<"U65E5", "U4ED8">>, <<"2", "0", "2", "5", "/", "0", "7", "/", "0", "2">>), Col(<<"U5E83", "U544A", "U8CBB", "U58F2", "U4E0A", "U9AD8", "U6BD4", "U7387">>, <<"2", "5">>), Col(<<"U5E83", "U544A", "U8CBB">>, <<"7", "0", "0">>) >>,
      << Col(<<"U671F", "U9593">>, <<"2", "0", "2", "5", "/", "0", "9", "/", "0", "1">>), Col(<<"U652F", "U51FA">>, <<"1", "0", "0">>) >>,
      << Col(<<"U30AD", "U30E3", "U30F3", "U30DA", "U30FC", "U30F3", "U540D">>, <<"c", "a", "m", "p">>), Col(<<"U652F", "U51FA">>, <<"1", "0", "0">>) >>,
      << Col(<<"U65E5", "U4ED8">>, <<"2", "0", "2", "5", "/", "0", "7", "/", "0", "2">>), Col(<<"U652F", "U51FA">>, <<"i", "n", "f">>) >>,
      << Col(<<"U65E5", "U4ED8">>, <<"2", "0", "2", "5", "/", "0", "8", "/", "0", "1">>), Col(<<"U8CBB", "U7528">>, <<"0", ".", "5">>) >>,
      AdLongRow }

----------------------------------------------------------------------------
(* One classifier call of upload_and_calculate *)

\* the source types upload_and_calculate dispatches on
Kinds == {"makad", "mercari", "hanro", "expense", "ad"}

\* 'o_aa' if 'o_aa' in key else 'a_m'
AccountTypes == {"a_m", "o_aa"}

\* results = {}
Empty == <<>>

\* the classifier is entered with results = {}; process_mercari_data takes
\* no account tag
Init ==
    /\ kind \in Kinds
    /\ account_type \in AccountTypes
    /\ kind = "mercari" => account_type = "a_m"
    /\ data = <<>>
    /\ results = Empty
    /\ pc = "rows"
    /\ returned = Empty
    /\ failed = FALSE
    /\ file_paths = <<>>
    /\ next_file = 1
    /\ all_results = <<>>
    /\ merged_results = Empty
    /\ call_value = None
    /\ call_date_str = None
    /\ answer = None
    /\ ServiceIdle

\* one pass of the row loop of process_makad_data; a row that raises ends
\* the call in the handler of lines 346-348
MakadRow ==
    /\ pc = "rows" /\ kind = "makad" /\ Len(data) < MaxRows
    /\ \E row \in MakadRows :
          /\ data' = Append(data, row)
          /\ IF makad_row_raises(row)
             THEN /\ pc' = "done"
                  /\ returned' = Empty
                  /\ failed' = TRUE
                  /\ UNCHANGED results
             ELSE /\ results' = makad_row(results, row, account_type)
                  /\ UNCHANGED <<pc, returned, failed>>
    /\ UNCHANGED <<kind, account_type>>
    /\ UNCHANGED upload_vars
    /\ UNCHANGED call_vars
    /\ UNCHANGED service_vars

\* one pass of the row loop of process_mercari_data; a row that raises ends
\* the call in the handler of lines 405-407
MercariRow ==
    /\ pc = "rows" /\ kind = "mercari" /\ Len(data) < MaxRows
    /\ \E row \in MercariRows :
          /\ data' = Append(data, row)
          /\ IF mercari_row_raises(row)
             THEN /\ pc' = "done"
                  /\ returned' = Empty
                  /\ failed' = TRUE
                  /\ UNCHANGED results
             ELSE /\ results' = mercari_row(results, row)
                  /\ UNCHANGED <<pc, returned, failed>>
    /\ UNCHANGED <<kind, account_type>>
    /\ UNCHANGED upload_vars
    /\ UNCHANGED call_vars
    /\ UNCHANGED service_vars

\* one pass of the row loop of process_hanro_data; a row that raises ends
\* the call in the handler of lines 470-472
HanroRow ==
    /\ pc = "rows" /\ kind = "hanro" /\ Len(data) < MaxRows
    /\ \E row \in HanroRows :
          /\ data' = Append(data, row)
          /\ IF hanro_row_raises(row)
             THEN /\ pc' = "done"
                  /\ returned' = Empty
                  /\ failed' = TRUE
                  /\ UNCHANGED results
             ELSE /\ results' = hanro_row(results, row, account_type)
                  /\ UNCHANGED <<pc, returned, failed>>
    /\ UNCHANGED <<kind, account_type>>
    /\ UNCHANGED upload_vars
    /\ UNCHANGED call_vars
    /\ UNCHANGED service_vars

\* one pass of the row loop of process_expense_data_improved
ExpenseRow ==
    /\ pc = "rows" /\ kind = "expense" /\ Len(data) < MaxRows
    /\ \E row \in ExpenseRows :
          /\ data' = Append(data, row)
          /\ results' = expense_row(results, row, account_type)
    /\ UNCHANGED <<kind, account_type, pc, returned, failed>>
    /\ UNCHANGED upload_vars
    /\ UNCHANGED call_vars
    /\ UNCHANGED service_vars

\* one pass of the row loop of process_ad_data_improved
AdRow ==
    /\ pc = "rows" /\ kind = "ad" /\ Len(data) < MaxRows
    /\ \E row \in AdRows :
          /\ data' = Append(data, row)
          /\ results' = ad_row(results, row, account_type)
    /\ UNCHANGED <<kind, account_type, pc, returned, failed>>
    /\ UNCHANGED upload_vars
    /\ UNCHANGED call_vars
    /\ UNCHANGED service_vars

\* int(results[month][key]) for every bucket
TruncateAll(res) ==
    [month \in DOMAIN res |-> [key \in DOMAIN res[month] |-> TruncToInt(res[month][key])]]

\* int() of inf or nan raises
AllFinite(res) ==
    \A month \in DOMAIN res : \A key \in DOMAIN res[month] : IsFinite(res[month][key])

\* the end of the table: every bucket is converted with int() and the
\* aggregate is returned; int() of a non-finite sum raises, and the
\* classifier's outermost handler returns {}
Finish ==
    /\ pc = "rows"
    /\ pc' = "done"
    /\ IF AllFinite(results)
       THEN returned' = TruncateAll(results) /\ failed' = FALSE
       ELSE returned' = Empty /\ failed' = TRUE
    /\ UNCHANGED <<kind, account_type, data, results>>
    /\ UNCHANGED upload_vars
    /\ UNCHANGED call_vars
    /\ UNCHANGED service_vars

Next == MakadRow \/ MercariRow \/ HanroRow \/ ExpenseRow \/ AdRow \/ Finish

Spec == Init /\ [][Next]_vars

----------------------------------------------------------------------------
(* A classifier call as a function of its table *)

\* the row ends the call in the classifier's outermost handler
row_raises(k, row) ==
    \/ k = "makad" /\ makad_row_raises(row)
    \/ k = "mercari" /\ mercari_row_raises(row)
    \/ k = "hanro" /\ hanro_row_raises(row)

\* the loop body of the classifier of source type k for one row
classify_row(k, account, res, row) ==
    CASE k = "makad" -> makad_row(res, row, account)
      [] k = "mercari" -> mercari_row(res, row)
      [] k = "hanro" -> hanro_row(res, row, account)
      [] k = "expense" -> expense_row(res, row, account)
      [] k = "ad" -> ad_row(res, row, account)

RECURSIVE process_rows_leftover(_, _, _, _, _)
\* a loop that starts from the results the call before it left behind
\* instead of results = {}
process_rows_leftover(k, account, rows, i, res) ==
    LET start == IF i = 1 THEN results ELSE res
    IN  IF i > Len(rows) THEN [res |-> start, raised |-> FALSE]
        ELSE IF row_raises(k, rows[i]) THEN [res |-> start, raised |-> TRUE]
        ELSE process_rows_leftover(k, account, rows, i + 1,
                                   classify_row(k, account, start, rows[i]))

RECURSIVE process_rows(_, _, _, _, _)
\* for row in data, from the i-th row on: the accumulator at the end of the
\* loop, and whether a row raised out of it
process_rows(k, account, rows, i, res) ==
    IF i > Len(rows) THEN [res |-> res, raised |-> FALSE]
    ELSE IF row_raises(k, rows[i]) THEN [res |-> res, raised |-> TRUE]
    ELSE process_rows(k, account, rows, i + 1, classify_row(k, account, res, rows[i]))

\* the end of a classifier call: the aggregate returned, {} when a row or
\* the conversion to integers raised
end_of_call(run) ==
    IF run.raised \/ ~AllFinite(run.res) THEN Empty ELSE TruncateAll(run.res)

\* process_<k>_data(data, account_type)
process_data(k, account, rows) == end_of_call(process_rows(k, account, rows, 1, Empty))

----------------------------------------------------------------------------
(* merge_monthly_data and the file loop of upload_and_calculate *)

\* a merger that creates an empty dict for a new month
merged_buckets_none == {}

\* lines 679-692: the dict merge_monthly_data creates for a new month
merged_buckets ==
    {"Amazon", "Amazon2", "MercariShops", "PlatformFee_Amazon", "PlatformFee_Amazon2",
     "PlatformFee_Mercari", "ShippingCost", "GrossProfit", "SalesTotal"}

\* a merger in which a later source overwrites the bucket of an earlier one
merge_source_overwrite(merged, source_results) ==
    [month \in DOMAIN merged \cup DOMAIN source_results |->
        LET base == IF month \in DOMAIN merged THEN merged[month]
                    ELSE [key \in merged_buckets |-> 0]
        IN  IF month \notin DOMAIN source_results THEN base
            ELSE [key \in DOMAIN base \cup DOMAIN source_results[month] |->
                     IF key \notin DOMAIN source_results[month] THEN base[key]
                     ELSE source_results[month][key]]]

\* lines 676-698: one source aggregate merged into merged
merge_source(merged, source_results) ==
    [month \in DOMAIN merged \cup DOMAIN source_results |->
        LET base == IF month \in DOMAIN merged THEN merged[month]
                    ELSE [key \in merged_buckets |-> 0]
        IN  IF month \notin DOMAIN source_results THEN base
            ELSE [key \in DOMAIN base \cup DOMAIN source_results[month] |->
                     IF key \notin DOMAIN source_results[month] THEN base[key]
                     ELSE IF key \in DOMAIN base
                     THEN base[key] + source_results[month][key]
                     ELSE source_results[month][key]]]

RECURSIVE merge_from(_, _, _)
\* line 675: for source_results in all_results, from the i-th on
merge_from(merged, sources, i) ==
    IF i > Len(sources) THEN merged
    ELSE merge_from(merge_source(merged, sources[i]), sources, i + 1)

\* merge_monthly_data(all_results)
merge_monthly_data(sources) == merge_from(Empty, sources, 1)

----------------------------------------------------------------------------
(* convert_to_spreadsheet_format and calculate_change_percentage *)

\* The fields of a report row, with the names of the source:
\*   YearMonth 年月, Period 期間, Amazon_A_M Amazon（A-M）,
\*   Amazon2_O_AA Amazon2（O-AA）, MercariShops メルカリShops,
\*   PlatformFee_Amazon, PlatformFee_Amazon2, PlatformFee_Mercari
\*   プラットフォーム手数料_..., ShippingCost 運送費（送料）, GrossProfit 売上総利益,
\*   SalesTotal 売上高合計, SalesChange 売上前月比, ProfitChange 利益前月比.
\* A change is the rational n/d in lowest terms with d > 0 that the float
\* of the source rounds.

\* abs(n)
Abs(n) == IF n < 0 THEN 0 - n ELSE n

RECURSIVE Gcd(_, _)
\* the greatest common divisor of two naturals
Gcd(a, b) == IF b = 0 THEN a ELSE Gcd(b, a % b)

\* n / d for d # 0
Ratio(n, d) ==
    LET g == Gcd(Abs(n), Abs(d))
        sign == IF (n < 0) # (d < 0) THEN -1 ELSE 1
    IN  [n |-> sign * (Abs(n) \div g), d |-> Abs(d) \div g]

\* the number k as a change
Whole(k) == [n |-> k, d |-> 1]

\* a change that is 0 whenever the previous value is 0
calculate_change_percentage_flat(previous_value, current_value) ==
    IF previous_value = 0 THEN Whole(0)
    ELSE Ratio((current_value - previous_value) * 100, previous_value)

\* calculate_change_percentage: the quotient of two integers of the size of
\* the amounts is finite, so the check of lines 762-764 lets it pass
calculate_change_percentage(previous_value, current_value) ==
    IF previous_value = 0
    THEN (IF current_value > 0 THEN Whole(100) ELSE Whole(0))
    ELSE Ratio((current_value - previous_value) * 100, previous_value)

\* ord(c) for the characters of a period key
CodePoint(c) == IF c = "-" THEN 45 ELSE 48 + DigitVal(c)

RECURSIVE StrLess(_, _)
\* a < b for str
StrLess(a, b) ==
    IF b = <<>> THEN FALSE
    ELSE IF a = <<>> THEN TRUE
    ELSE IF a[1] # b[1] THEN CodePoint(a[1]) < CodePoint(b[1])
    ELSE StrLess(Tail(a), Tail(b))

RECURSIVE sorted_descending(_)
\* the keys from the latest to the earliest
sorted_descending(keys) ==
    IF keys = {} THEN <<>>
    ELSE LET first == CHOOSE k \in keys : \A other \in keys \ {k} : StrLess(other, k)
         IN  <<first>> \o sorted_descending(keys \ {first})

RECURSIVE sorted(_)
\* sorted(keys)
sorted(keys) ==
    IF keys = {} THEN <<>>
    ELSE LET first == CHOOSE k \in keys : \A other \in keys \ {k} : StrLess(k, other)
         IN  <<first>> \o sorted(keys \ {first})

\* lines 709-713: f"{year}年{int(month)}月", or the key itself when it does
\* not unpack into a year and a month that reads as an integer
month_display(month_key) ==
    LET parts == Split(month_key, "-")
    IN  IF Len(parts) = 2 /\ PyInt(parts[2]).ok /\ PyInt(parts[2]).v >= 0
        THEN parts[1] \o <<"U5E74">> \o IntToStr(PyInt(parts[2]).v) \o <<"U6708">>
        ELSE month_key

\* data.get(key, 0)
GetOr0(aggregate, key) == IF key \in DOMAIN aggregate THEN aggregate[key] ELSE 0

\* lines 716-753: the report row of a period behind the rows so far
row_data(month_key, aggregate, rows) ==
    [YearMonth |-> month_display(month_key),
     Period |-> month_key,
     Amazon_A_M |-> GetOr0(aggregate, "Amazon"),
     Amazon2_O_AA |-> GetOr0(aggregate, "Amazon2"),
     MercariShops |-> GetOr0(aggregate, "MercariShops"),
     PlatformFee_Amazon |-> GetOr0(aggregate, "PlatformFee_Amazon"),
     PlatformFee_Amazon2 |-> GetOr0(aggregate, "PlatformFee_Amazon2"),
     PlatformFee_Mercari |-> GetOr0(aggregate, "PlatformFee_Mercari"),
     ShippingCost |-> GetOr0(aggregate, "ShippingCost"),
     GrossProfit |-> GetOr0(aggregate, "GrossProfit"),
     SalesTotal |-> GetOr0(aggregate, "SalesTotal"),
     SalesChange |-> IF rows = <<>> THEN Whole(0)
                     ELSE calculate_change_percentage(rows[Len(rows)].SalesTotal,
                                                      GetOr0(aggregate, "SalesTotal")),
     ProfitChange |-> IF rows = <<>> THEN Whole(0)
                      ELSE calculate_change_percentage(rows[Len(rows)].GrossProfit,
                                                       GetOr0(aggregate, "GrossProfit"))]

RECURSIVE rows_from(_, _, _, _)
\* line 707: for month_key, data in sorted(merged_results.items()), from the
\* i-th period on
rows_from(merged, ordered, i, rows) ==
    IF i > Len(ordered) THEN rows
    ELSE rows_from(merged, ordered, i + 1,
                   Append(rows, row_data(ordered[i], merged[ordered[i]], rows)))

\* convert_to_spreadsheet_format(merged_results)
convert_to_spreadsheet_format(merged) ==
    rows_from(merged, sorted(DOMAIN merged), 1, <<>>)

\* lines 806-810
file_keys ==
    << <<"m", "a", "k", "a", "d", "_", "a", "_", "m">>, <<"h", "a", "n", "r", "o", "_", "a", "_", "m">>, <<"e", "x", "p", "e", "n", "s", "e", "_", "a", "_", "m">>, <<"a", "d", "_", "a", "_", "m">>, <<"m", "e", "r", "c", "a", "r", "i">>,
       <<"m", "a", "k", "a", "d", "_", "o", "_", "a", "a">>, <<"h", "a", "n", "r", "o", "_", "o", "_", "a", "a">>, <<"e", "x", "p", "e", "n", "s", "e", "_", "o", "_", "a", "a">>, <<"a", "d", "_", "o", "_", "a", "a">> >>

\* lines 844-853: the classifier an upload key selects
kind_of(key) ==
    IF Contains(key, <<"m", "a", "k", "a", "d">>) THEN "makad"
    ELSE IF Contains(key, <<"m", "e", "r", "c", "a", "r", "i">>) THEN "mercari"
    ELSE IF Contains(key, <<"h", "a", "n", "r", "o">>) THEN "hanro"
    ELSE IF Contains(key, <<"e", "x", "p", "e", "n", "s", "e">>) THEN "expense"
    ELSE IF Contains(key, <<"a", "d">>) THEN "ad"
    ELSE "none"

\* line 842
account_of(key) == IF Contains(key, <<"o", "_", "a", "a">>) THEN "o_aa" ELSE "a_m"

\* a file that safe_read_csv cannot read (it raises, lines 220-222)
Unreadable == [readable |-> FALSE, rows |-> <<>>]

\* a file that reads as the given lines
Readable(rows) == [readable |-> TRUE, rows |-> rows]

\* line 211: a line with no cell that holds a value is dropped
safe_read_csv(file) ==
    [ok |-> file.readable,
     data |-> SelectSeq(file.rows, LAMBDA row : \E i \in 1..Len(row) : ~Falsy(row[i][2]))]

\* a ledger line whose cells are all blank
BlankRow ==
    << Col(<<"U65E5", "U4ED8">>, <<>>), Col(<<"U652F", "U51FA">>, <<>>) >>

\* the files uploaded under the k-th file key
Files(k) ==
    CASE k = 1 -> {Readable(<<LedgerScenarioRow>>), Readable(<<LedgerHalfRow, LedgerLongRow>>),
                   Readable(<<LedgerMinusRow>>), Unreadable}
      [] k = 2 -> {Readable(<<RouteMercariRow, RouteAmazonRow>>), Readable(<<RouteShortRow>>)}
      [] k = 3 -> {Readable(<<ExpenseOrderRow>>)}
      [] k = 4 -> {Readable(<<AdThreeSpendRow>>)}
      [] k = 5 -> {Readable(<<ShopFullRow>>), Readable(<<ShopOverlapRow>>), Unreadable}
      [] k = 6 -> {Readable(<<LedgerFullRow>>),
                   Readable(<< << Col(<<"U6CE8", "U6587", "U65E5">>, <<"2", "0", "2", "5", "/", "0", "7", "/", "1", "5">>), Col(<<"U8CA9", "U58F2", "U4FA1", "U683C">>, <<"i", "n", "f">>) >> >>)}
      [] k = 7 -> {}
      [] k = 8 -> {Readable(<<ExpenseFeeRow>>)}
      [] k = 9 -> {Readable(<<BlankRow>>)}

\* no file under a file key (line 813: key not in request.files)
Absent == [readable |-> FALSE, rows |-> << <<>> >>]

\* what a request holds under the k-th file key
Offered(k) == Files(k) \cup {Absent}

\* lines 812-819: file_paths of a request, in the order of file_keys
Attached(offer) ==
    SelectSeq([k \in 1..Len(file_keys) |-> [key |-> file_keys[k], file |-> offer[k]]],
              LAMBDA source : source.file # Absent)

\* the uploads of the requests
Uploads ==
    {Attached(<<f1, f2, f3, f4, f5, f6, f7, f8, f9>>) :
        f1 \in Offered(1), f2 \in Offered(2), f3 \in Offered(3), f4 \in Offered(4),
        f5 \in Offered(5), f6 \in Offered(6), f7 \in Offered(7), f8 \in Offered(8),
        f9 \in Offered(9)}

\* a request arrives with at most MaxFiles files
UploadInit ==
    /\ file_paths \in {up \in Uploads : Len(up) <= MaxFiles}
    /\ next_file = 1
    /\ all_results = <<>>
    /\ merged_results = Empty
    /\ call_value = None
    /\ call_date_str = None
    /\ answer = None
    /\ ServiceIdle
    /\ pc = "files"
    /\ kind = "none"
    /\ account_type = "a_m"
    /\ data = <<>>
    /\ results = Empty
    /\ returned = Empty
    /\ failed = FALSE

\* a file loop whose handler gives up what the earlier files contributed
after_file_aborting(collected, read_ok, file_results) ==
    IF ~read_ok THEN <<>>
    ELSE IF file_results # Empty THEN Append(collected, file_results) ELSE collected

\* lines 829-861: all_results after the pass for one file: a result that is
\* not empty is appended (857-858); a file that cannot be read raises into
\* the handler of line 860 and leaves all_results as it was
after_file(collected, read_ok, file_results) ==
    IF ~read_ok THEN collected
    ELSE IF file_results # Empty THEN Append(collected, file_results) ELSE collected

\* lines 822-823: a request without files is answered with status 400
Reject ==
    /\ pc = "files" /\ file_paths = <<>>
    /\ pc' = "rejected"
    /\ UNCHANGED <<kind, account_type, data, results, returned, failed>>
    /\ UNCHANGED upload_vars
    /\ UNCHANGED call_vars
    /\ UNCHANGED service_vars

\* lines 829-861: one pass of the file loop: the file is read (831) and
\* classified (844-855)
ProcessFile ==
    /\ pc = "files" /\ next_file <= Len(file_paths)
    /\ LET key == file_paths[next_file].key
           read == safe_read_csv(file_paths[next_file].file)
       IN  /\ kind' = kind_of(key)
           /\ account_type' = account_of(key)
           /\ data' = read.data
           /\ \E run \in {process_rows(kind_of(key), account_of(key), read.data, 1, Empty)} :
                  /\ results' = IF read.ok THEN run.res ELSE Empty
                  /\ returned' = IF read.ok THEN end_of_call(run) ELSE Empty
                  /\ failed' = (~read.ok \/ run.raised \/ ~AllFinite(run.res))
                  /\ all_results' = after_file(all_results, read.ok, end_of_call(run))
    /\ next_file' = next_file + 1
    /\ UNCHANGED <<pc, file_paths, merged_results>>
    /\ UNCHANGED call_vars
    /\ UNCHANGED service_vars

\* line 864: merged_results = merge_monthly_data(all_results)
Merge ==
    /\ pc = "files" /\ file_paths # <<>> /\ next_file > Len(file_paths)
    /\ merged_results' = merge_monthly_data(all_results)
    /\ pc' = "merged"
    /\ UNCHANGED <<kind, account_type, data, results, returned, failed>>
    /\ UNCHANGED <<file_paths, next_file, all_results>>
    /\ UNCHANGED call_vars
    /\ UNCHANGED service_vars

\* line 867: spreadsheet_data = convert_to_spreadsheet_format(merged_results)
Project ==
    /\ pc = "merged"
    /\ spreadsheet_data' = convert_to_spreadsheet_format(merged_results)
    /\ pc' = "projected"
    /\ UNCHANGED <<kind, account_type, data, results, returned, failed, call_obj, call_log>>
    /\ UNCHANGED upload_vars
    /\ UNCHANGED call_vars
    /\ UNCHANGED store_vars

UploadNext == Reject \/ ProcessFile \/ Merge \/ Project

UploadSpec == UploadInit /\ [][UploadNext]_vars

----------------------------------------------------------------------------
(* safe_float_convert and extract_month_from_date as calls *)

\* what a cell text starts with
ValuePrefixes == {<<>>, <<" ">>, <<"U00A5">>, <<"UFFE5">>, <<"-">>, <<"+">>}

\* the body of a cell text
ValueBodies ==
    {<<>>, <<"0">>, <<"7">>, <<"1", ",", "2", "3", "4">>, <<"1", "2", ".", "5">>, <<".", "5">>, <<"5", ".">>, <<".">>, <<"1", ".", "2", ".", "3">>, <<"1", " ", "2">>, <<"a", "b", "c">>,
     <<"n", "a", "n">>, <<"N", "a", "N">>, <<"-", "n", "a", "n">>, <<"n", "o", "n", "e">>, <<"N", "o", "n", "e">>, <<"N", "U", "L", "L">>, <<"-">>, <<"i", "n", "f">>, <<"I", "n", "f", "i", "n", "i", "t", "y">>}

\* what a cell text ends with
ValueSuffixes == {<<>>, <<"U5186">>, <<" ">>, <<",">>}

\* the cells safe_float_convert is called with
Values ==
    {None} \cup {pre \o body \o suf : pre \in ValuePrefixes, body \in ValueBodies,
                                      suf \in ValueSuffixes}

\* the parts of a date text
DateTokens ==
    {<<>>, <<"2", "0", "2", "5">>, <<"2", "0", "1", "9">>, <<"2", "0", "3", "1">>, <<"0", "7">>, <<"7">>, <<" ", "7">>, <<"2", "5">>, <<"1", "5">>, <<"1", "3">>, <<"0">>, <<"a", "b">>}

DateSeparators == {"/", "-"}

\* date texts with a '/' behind a date written with '-'
MixedDates == {<<"2", "0", "2", "5", "-", "0", "7", "-", "1", "5", "/", "x">>, <<"2", "0", "2", "5", "-", "7", "-", "1", " ", "1", "0", "/", "3", "0">>, <<"2", "0", "3", "1", "-", "0", "7", "-", "1", "5", "/", "1">>}

\* the cells extract_month_from_date is called with: up to three parts
Dates ==
    {None} \cup DateTokens \cup MixedDates
    \cup {a \o <<x>> \o b : a \in DateTokens, b \in DateTokens, x \in DateSeparators}
    \cup {a \o <<x>> \o b \o <<y>> \o c :
             a \in DateTokens, b \in DateTokens, c \in DateTokens,
             x \in DateSeparators, y \in DateSeparators}

ConvertInit ==
    /\ call_value \in Values
    /\ call_date_str = None
    /\ answer = None
    /\ ServiceIdle
    /\ pc = "convert"
    /\ kind = "none"
    /\ account_type = "a_m"
    /\ data = <<>>
    /\ results = Empty
    /\ returned = Empty
    /\ failed = FALSE
    /\ file_paths = <<>>
    /\ next_file = 1
    /\ all_results = <<>>
    /\ merged_results = Empty

\* the call safe_float_convert(call_value) returns
Convert ==
    /\ pc = "convert"
    /\ answer' = safe_float_convert(call_value)
    /\ pc' = "converted"
    /\ UNCHANGED <<kind, account_type, data, results, returned, failed, call_value, call_date_str>>
    /\ UNCHANGED upload_vars
    /\ UNCHANGED service_vars

ConvertNext == Convert

ConvertSpec == ConvertInit /\ [][ConvertNext]_vars

ResolveInit ==
    /\ call_date_str \in Dates
    /\ call_value = None
    /\ answer = None
    /\ ServiceIdle
    /\ pc = "resolve"
    /\ kind = "none"
    /\ account_type = "a_m"
    /\ data = <<>>
    /\ results = Empty
    /\ returned = Empty
    /\ failed = FALSE
    /\ file_paths = <<>>
    /\ next_file = 1
    /\ all_results = <<>>
    /\ merged_results = Empty

\* the call extract_month_from_date(call_date_str) returns
Resolve ==
    /\ pc = "resolve"
    /\ answer' = extract_month_from_date(call_date_str)
    /\ pc' = "resolved"
    /\ UNCHANGED <<kind, account_type, data, results, returned, failed, call_value, call_date_str>>
    /\ UNCHANGED upload_vars
    /\ UNCHANGED service_vars

ResolveNext == Resolve

ResolveSpec == ResolveInit /\ [][ResolveNext]_vars

----------------------------------------------------------------------------
(* What the table read so far should have accumulated *)

\* the date cell the running classifier finds in a row
RowDate(row) ==
    CASE kind = "makad" -> makad_date_value(row)
      [] kind = "mercari" -> mercari_date_value(row)
      [] kind = "hanro" -> hanro_date_value(row)
      [] kind = "expense" -> expense_date_value(row)
      [] kind = "ad" -> ad_date_value(row)

\* the row is aggregated: it has a date, it did not end the call and it was
\* not skipped by the handler of its loop
Aggregated(row) ==
    /\ ~Falsy(RowDate(row))
    /\ ~row_raises(kind, row)
    /\ ~(kind = "expense" /\ expense_row_raises(row))
    /\ ~(kind = "ad" /\ ad_row_raises(row))

\* the period of an aggregated row
RowMonth(row) == extract_month_from_date(Str(RowDate(row)))

\* the indices of the rows read so far that are aggregated into a month
RowsOf(month) ==
    {r \in 1..Len(data) : Aggregated(data[r]) /\ RowMonth(data[r]) = month}

\* the months of the aggregated rows
Months == {RowMonth(data[r]) : r \in {q \in 1..Len(data) : Aggregated(data[q])}}

\* the normalized value of the c-th cell of a row
Amount(row, c) == safe_float_convert(row[c][2])

\* every cell read so far is blank or an integer amount
IntegerValued ==
    \A r \in 1..Len(data) : \A c \in 1..Len(data[r]) :
        IsFinite(Amount(data[r], c)) /\ Amount(data[r], c).v % Scale = 0

Revenue == IF account_type = "a_m" THEN "Amazon" ELSE "Amazon2"

Fee == IF account_type = "a_m" THEN "PlatformFee_Amazon" ELSE "PlatformFee_Amazon2"

Suffix == IF account_type = "a_m" THEN "A-M" ELSE "O-AA"

\* C1: the ledger rule a column name falls under, first match wins (0: none)
C1_Rule(key) ==
    IF Contains(key, <<"U8CA9", "U58F2", "U4FA1", "U683C">>) THEN 1
    ELSE IF Contains(key, <<"U9001", "U6599">>) THEN 2
    ELSE IF Contains(key, <<"U30DD", "U30A4", "U30F3", "U30C8">>) \/ Contains(key, <<"U5272", "U5F15">>) THEN 3
    ELSE IF Contains(key, <<"U624B", "U6570", "U6599">>) /\ Contains(key, <<"A", "m", "a", "z", "o", "n">>) THEN 4
    ELSE IF Contains(key, <<"U5229", "U76CA">>) \/ Contains(key, <<"U7C97", "U5229">>) THEN 5
    ELSE 0

\* C1: the buckets the c-th cell of a ledger row changes, and by how much:
\* price adds to revenue and total; shipping to revenue, shipping cost and
\* total; point and discount subtract from revenue and total; an Amazon fee
\* adds to the fee bucket; profit to gross profit
C1_Delta(row, c) ==
    LET rule == C1_Rule(row[c][1])
    IN  [to |-> CASE rule = 1 -> {Revenue, "SalesTotal"}
                  [] rule = 2 -> {Revenue, "ShippingCost", "SalesTotal"}
                  [] rule = 3 -> {Revenue, "SalesTotal"}
                  [] rule = 4 -> {Fee}
                  [] rule = 5 -> {"GrossProfit"}
                  [] OTHER -> {},
         by |-> IF rule = 3 THEN FNeg(Amount(row, c)) ELSE Amount(row, c)]

\* C7: the shop-sales rule a column name falls under, first match wins
C7_Rule(key) ==
    IF Contains(key, <<"U58F2", "U4E0A">>) /\ Contains(key, <<"U7A0E", "U8FBC">>) THEN 1
    ELSE IF Contains(key, <<"U8CA9", "U58F2", "U624B", "U6570", "U6599">>) /\ Contains(key, <<"U7A0E", "U8FBC">>) THEN 2
    ELSE IF Contains(key, <<"U5229", "U76CA">>) THEN 3
    ELSE IF Contains(key, <<"U9001", "U6599">>) THEN 4
    ELSE 0

\* C7: the buckets the c-th cell of a shop-sales row adds to, and how much
C7_Delta(row, c) ==
    LET rule == C7_Rule(row[c][1])
    IN  [to |-> CASE rule = 1 -> {"MercariShops", "SalesTotal"}
                  [] rule = 2 -> {"PlatformFee_Mercari"}
                  [] rule = 3 -> {"GrossProfit"}
                  [] rule = 4 -> {"ShippingCost"}
                  [] OTHER -> {},
         by |-> Amount(row, c)]

\* C8: the multi-route rule a column name falls under, first match wins
C8_Rule(key) ==
    IF Contains(key, <<"n", "e", "t", "P", "r", "i", "c", "e">>) \/ Contains(key, <<"U4FA1", "U683C">>) \/ Contains(key, <<"U58F2", "U4E0A">>) THEN 1
    ELSE IF Contains(key, <<"p", "r", "o", "f", "i", "t">>) \/ Contains(key, <<"U5229", "U76CA">>) THEN 2
    ELSE IF Contains(key, <<"U9001", "U6599">>) \/ Contains(Lower(key), <<"s", "h", "i", "p", "p", "i", "n", "g">>) THEN 3
    ELSE 0

\* C8: the revenue bucket the row's 'mall' field selects
C8_RevenueBucket(row) ==
    IF \E i \in 1..Len(row) :
          row[i][1] = <<"m", "a", "l", "l">> /\ row[i][2] # None /\ Lower(row[i][2]) = <<"m", "e", "r", "c", "a", "r", "i">>
    THEN "MercariShops"
    ELSE Revenue

\* C8: the buckets the c-th cell of a multi-route row adds to, and how much
C8_Delta(row, c) ==
    LET rule == C8_Rule(row[c][1])
    IN  [to |-> CASE rule = 1 -> {C8_RevenueBucket(row), "SalesTotal"}
                  [] rule = 2 -> {"GrossProfit"}
                  [] rule = 3 -> {"ShippingCost"}
                  [] OTHER -> {},
         by |-> Amount(row, c)]

\* C3: the keyword sets of the four named expense categories, in order
C3_Order ==
    << <<"FBAFee_", fba_terms>>, <<"AmazonFee_", commission_terms>>,
       <<"ShippingFee_", shipping_terms>>, <<"PointCost_", point_terms>> >>

\* C3: the text the keywords are tested on: column name, transaction type
\* and description of the row, in lower case
C3_Text(row, c) ==
    Lower(CleanKey(row[c][1]) \o <<" ">> \o Str(Get(row, <<"U30C8", "U30E9", "U30F3", "U30B6", "U30AF", "U30B7", "U30E7", "U30F3", "U306E", "U7A2E", "U985E">>, <<>>))
                              \o <<" ">> \o Str(Get(row, <<"U5546", "U54C1", "U306E", "U8AAC", "U660E">>, <<>>)))

\* C3: the first category in order whose keyword set matches the text, and
\* 'other' exactly when none does
C3_Category(text) ==
    LET matching == {k \in 1..4 : ContainsAny(text, C3_Order[k][2])}
    IN  IF matching = {} THEN "OtherExpense_"
        ELSE C3_Order[CHOOSE k \in matching : \A j \in matching : k <= j][1]

\* the c-th cell of an expense row is a routed amount: it is not blank and
\* its value is negative
Routed(row, c) == ~Falsy(row[c][2]) /\ FNegative(Amount(row, c))

\* C3, C4: the buckets the c-th cell of an expense row adds to, and how
\* much: a routed amount adds its absolute value to its category and to
\* the expense total
C3_Delta(row, c) ==
    [to |-> IF Routed(row, c)
            THEN {C3_Category(C3_Text(row, c)) \o Suffix, "ExpenseTotal_" \o Suffix}
            ELSE {},
     by |-> FAbs(Amount(row, c))]

\* C6: the columns of an advertising row that qualify as spend: a spend-like
\* name that is not excluded, and a strictly positive value
C6_Qualifying(row) ==
    {c \in 1..Len(row) :
        /\ ContainsAny(CleanKey(row[c][1]), spend_terms)
        /\ ~ContainsAny(CleanKey(row[c][1]), skip_terms)
        /\ ~Falsy(row[c][2])
        /\ FPositive(Amount(row, c))}

\* C6: the buckets the c-th cell of an advertising row adds to, and how
\* much: the first qualifying column of the row adds its value to both
\* buckets, every other column adds nothing
C6_Delta(row, c) ==
    [to |-> IF C6_Qualifying(row) # {} /\ c = First(C6_Qualifying(row))
            THEN {"SponsoredProductAd_" \o Suffix, "AdTotal_" \o Suffix}
            ELSE {},
     by |-> Amount(row, c)]

\* what the c-th cell of a row should add, by the rules of its source type
Delta(row, c) ==
    CASE kind = "makad" -> C1_Delta(row, c)
      [] kind = "mercari" -> C7_Delta(row, c)
      [] kind = "hanro" -> C8_Delta(row, c)
      [] kind = "expense" -> C3_Delta(row, c)
      [] kind = "ad" -> C6_Delta(row, c)

\* acc with one cell's contribution added
AddDelta(acc, delta) ==
    [bucket \in DOMAIN acc |->
        IF bucket \in delta.to THEN FAdd(acc[bucket], delta.by) ELSE acc[bucket]]

RECURSIVE SumCells(_, _, _, _)
\* the float sums, in reading order from cell c of row r on, of what the
\* cells of the given rows should add to each bucket
SumCells(rows, acc, r, c) ==
    IF r > Len(data) THEN acc
    ELSE IF r \notin rows \/ c > Len(data[r]) THEN SumCells(rows, acc, r + 1, 1)
    ELSE SumCells(rows, AddDelta(acc, Delta(data[r], c)), r, c + 1)

\* the sums the buckets of a month should have accumulated over the rows read
ExpectedSums(month, buckets) ==
    SumCells(RowsOf(month), [bucket \in buckets |-> Zero], 1, 1)

\* the accumulator holds the months of the aggregated rows, and in each
\* bucket the sum of what the rules add
Accumulated ==
    /\ DOMAIN results = Months
    /\ \A month \in DOMAIN results :
          results[month] = ExpectedSums(month, DOMAIN results[month])

----------------------------------------------------------------------------
(* The ledger classifier *)

\* C1: while process_makad_data reads a ledger table, the accumulator holds
\* exactly the months of the rows in which a date was found, and every bucket
\* of a month holds the sum of what the first matching rule adds for each
\* column of those rows: price to revenue and total; shipping to revenue,
\* shipping cost and total; point and discount subtracted from revenue and
\* total; an Amazon fee to the fee bucket; profit to gross profit; a column
\* no rule matches adds nothing.  The table of the one row
\* {'販売価格': '1,000', '注文日': '2025/07/15'} under account a_m returns
\* {'2025-07': {Amazon: 1000, 売上高合計: 1000, every other bucket 0}}.
C1_LedgerRouting ==
    kind = "makad" =>
        /\ Accumulated
        /\ (pc = "done" /\ account_type = "a_m" /\ data = <<LedgerScenarioRow>>) =>
              returned = (<<"2", "0", "2", "5", "-", "0", "7">> :>
                            [Amazon |-> 1000, MercariShops |-> 0, PlatformFee_Amazon |-> 0,
                             PlatformFee_Mercari |-> 0, ShippingCost |-> 0,
                             GrossProfit |-> 0, SalesTotal |-> 1000])

\* C1: the table of the overlap row and the scenario row has been classified:
\* '送料込販売価格' fell under the price rule and 'Amazon手数料割引' under the
\* discount rule
C1_Witness ==
    /\ kind = "makad" /\ pc = "done" /\ account_type = "a_m"
    /\ data = <<LedgerOverlapRow, LedgerScenarioRow>>
    /\ returned[<<"2", "0", "2", "5", "-", "0", "7">>]["Amazon"] = 2970
    /\ returned[<<"2", "0", "2", "5", "-", "0", "7">>]["SalesTotal"] = 2970
    /\ returned[<<"2", "0", "2", "5", "-", "0", "7">>]["ShippingCost"] = 0
    /\ returned[<<"2", "0", "2", "5", "-", "0", "7">>]["PlatformFee_Amazon"] = 0
    /\ returned[<<"2", "0", "2", "5", "-", "0", "7">>]["GrossProfit"] = 25

----------------------------------------------------------------------------
(* The expense classifier *)

\* the category buckets of the running account
C2_Categories ==
    {"FBAFee_" \o Suffix, "AmazonFee_" \o Suffix, "ShippingFee_" \o Suffix,
     "PointCost_" \o Suffix, "OtherExpense_" \o Suffix}

\* the float sum of the five category buckets of a month's dict
C4_CategorySum(bk) ==
    FAdd(FAdd(FAdd(FAdd(bk["FBAFee_" \o Suffix], bk["AmazonFee_" \o Suffix]),
                   bk["ShippingFee_" \o Suffix]), bk["PointCost_" \o Suffix]),
         bk["OtherExpense_" \o Suffix])

\* the value of the net-amount column '合計' of a row, 0 without one
C2_NetAmount(row) ==
    LET hits == {c \in 1..Len(row) : CleanKey(row[c][1]) = <<"U5408", "U8A08">>}
    IN  IF hits = {} THEN Zero ELSE Amount(row, First(hits))

\* what a row is worth as an expense by its net amount alone
C2_NetExpense(row) ==
    IF FNegative(C2_NetAmount(row)) THEN FAbs(C2_NetAmount(row)) ELSE Zero

RECURSIVE C2_NetSum(_, _)
\* the sum of the net expenses of the given rows, from row r on
C2_NetSum(rows, r) ==
    IF r > Len(data) THEN Zero
    ELSE FAdd(IF r \in rows THEN C2_NetExpense(data[r]) ELSE Zero, C2_NetSum(rows, r + 1))

\* the routed cells of the given rows
C2_RoutedCells(rows) ==
    UNION {{<<r, c>> : c \in {q \in 1..Len(data[r]) : Routed(data[r], q)}} : r \in rows}

RECURSIVE C2_CellSum(_, _, _)
\* the sum of the absolute values of the routed cells of the given rows,
\* from cell c of row r on
C2_CellSum(rows, r, c) ==
    IF r > Len(data) THEN Zero
    ELSE IF r \notin rows \/ c > Len(data[r]) THEN C2_CellSum(rows, r + 1, 1)
    ELSE FAdd(IF Routed(data[r], c) THEN FAbs(Amount(data[r], c)) ELSE Zero,
              C2_CellSum(rows, r, c + 1))

\* C2 as stated: the expense total of a month is the sum, over its rows with
\* a negative net amount, of the absolute net amount, and a month of one row
\* has at most one category bucket that is not 0
C2_NetAmountOnly ==
    kind = "expense" =>
        \A month \in DOMAIN results :
            /\ results[month]["ExpenseTotal_" \o Suffix] = C2_NetSum(RowsOf(month), 1)
            /\ Cardinality(RowsOf(month)) = 1 =>
                  Cardinality({b \in C2_Categories : results[month][b] # Zero}) <= 1

\* C2: every cell of a dated row that is not blank and whose normalized value
\* is negative counts as an expense, whatever its column, the net-amount
\* column like any other: the expense total of a month is the sum of the
\* absolute values of those cells, each of them is booked in exactly one
\* category bucket, so a row adds once per negative cell and to as many
\* category buckets as its negative cells fall into; zero, positive and blank
\* cells add nothing
C2_EveryNegativeCell ==
    kind = "expense" =>
        \A month \in DOMAIN results :
            /\ results[month]["ExpenseTotal_" \o Suffix] = C2_CellSum(RowsOf(month), 1, 1)
            /\ C4_CategorySum(results[month]) = results[month]["ExpenseTotal_" \o Suffix]
            /\ Cardinality({b \in C2_Categories : results[month][b] # Zero})
                  <= Cardinality(C2_RoutedCells(RowsOf(month)))

\* C2: an order whose net amount is positive (840) has been booked with the
\* 160 of its three negative fee columns, in three category buckets
C2_Witness ==
    /\ kind = "expense" /\ pc = "done"
    /\ data = <<ExpenseOrderRow>>
    /\ C2_NetExpense(ExpenseOrderRow) = Zero
    /\ returned[<<"2", "0", "2", "5", "-", "0", "7">>]["ExpenseTotal_" \o Suffix] = 160
    /\ returned[<<"2", "0", "2", "5", "-", "0", "7">>]["OtherExpense_" \o Suffix] = 100
    /\ returned[<<"2", "0", "2", "5", "-", "0", "7">>]["FBAFee_" \o Suffix] = 50
    /\ returned[<<"2", "0", "2", "5", "-", "0", "7">>]["PointCost_" \o Suffix] = 10

\* the rows read so far all book their routed amounts under a text that
\* holds a fulfillment keyword
C3_AllFulfillment ==
    \A r \in 1..Len(data) : \A c \in 1..Len(data[r]) :
        (Aggregated(data[r]) /\ Routed(data[r], c)) =>
            ContainsAny(C3_Text(data[r], c), fba_terms)

\* C3: every routed amount is booked in the first of fulfillment, commission,
\* shipping, point whose keyword set matches the combined text of column
\* name, transaction type and description, and in 'other' exactly when none
\* matches; so while every routed amount has a fulfillment keyword in its
\* text, whatever else the text matches, nothing is booked outside FBA手数料
C3_CategoryPrecedence ==
    kind = "expense" =>
        /\ Accumulated
        /\ C3_AllFulfillment =>
              \A month \in DOMAIN results :
                  \A b \in C2_Categories \ {"FBAFee_" \o Suffix} : results[month][b] = Zero

\* C3: an amount whose text holds 'FBA', '在庫' and '配送' is booked as FBA
\* fee, and one whose text holds 'リファーラル', '配送' and 'ポイント' as
\* commission
C3_Witness ==
    /\ kind = "expense" /\ pc = "done"
    /\ Len(data) = 2 /\ data[1] = ExpenseFbaShippingRow
    /\ Get(data[2], <<"U5546", "U54C1", "U306E", "U8AAC", "U660E">>, <<>>) = <<"U30EA", "U30D5", "U30A1", "U30FC", "U30E9", "U30EB", " ", "U914D", "U9001", " ", "U30DD", "U30A4", "U30F3", "U30C8">>
    /\ returned[<<"2", "0", "2", "5", "-", "0", "7">>]["FBAFee_" \o Suffix] = 300
    /\ returned[<<"2", "0", "2", "5", "-", "0", "7">>]["ShippingFee_" \o Suffix] = 0
    /\ returned[<<"2", "0", "2", "5", "-", "0", "8">>]["AmazonFee_" \o Suffix] = 200
    /\ returned[<<"2", "0", "2", "5", "-", "0", "8">>]["ShippingFee_" \o Suffix] = 0
    /\ returned[<<"2", "0", "2", "5", "-", "0", "8">>]["PointCost_" \o Suffix] = 0

\* C4: the expense total of every month is the sum of the five category
\* buckets of the same suffix and none of the six is negative, in the
\* accumulator after every row and, for integer-valued amounts, in the
\* aggregate the classifier returns
C4_ExpenseTotal ==
    kind = "expense" =>
        /\ \A month \in DOMAIN results :
              /\ results[month]["ExpenseTotal_" \o Suffix] = C4_CategorySum(results[month])
              /\ \A b \in DOMAIN results[month] : ~FNegative(results[month][b])
        /\ (pc = "done" /\ IntegerValued) =>
              \A month \in DOMAIN returned :
                  /\ returned[month]["ExpenseTotal_" \o Suffix] =
                        returned[month]["FBAFee_" \o Suffix]
                        + returned[month]["AmazonFee_" \o Suffix]
                        + returned[month]["ShippingFee_" \o Suffix]
                        + returned[month]["PointCost_" \o Suffix]
                        + returned[month]["OtherExpense_" \o Suffix]
                  /\ \A b \in DOMAIN returned[month] : returned[month][b] >= 0

\* C4: two rows of one month have been booked in three categories, and the
\* total is their sum
C4_Witness ==
    /\ kind = "expense" /\ pc = "done" /\ IntegerValued
    /\ data = <<ExpenseOrderRow, ExpenseFeeRow>>
    /\ returned[<<"2", "0", "2", "5", "-", "0", "7">>]["OtherExpense_" \o Suffix] = 300
    /\ returned[<<"2", "0", "2", "5", "-", "0", "7">>]["FBAFee_" \o Suffix] = 50
    /\ returned[<<"2", "0", "2", "5", "-", "0", "7">>]["PointCost_" \o Suffix] = 10
    /\ returned[<<"2", "0", "2", "5", "-", "0", "7">>]["ExpenseTotal_" \o Suffix] = 360

\* the cells of a row in a column named as a point cost
C5_PointFields(row) ==
    {c \in 1..Len(row) : Contains(CleanKey(row[c][1]), <<"U30DD", "U30A4", "U30F3", "U30C8">>)}

RECURSIVE C5_FieldSum(_, _, _)
\* the sum of the values of the point-cost fields of the given rows, from
\* cell c of row r on
C5_FieldSum(rows, r, c) ==
    IF r > Len(data) THEN Zero
    ELSE IF r \notin rows \/ c > Len(data[r]) THEN C5_FieldSum(rows, r + 1, 1)
    ELSE FAdd(IF c \in C5_PointFields(data[r]) THEN Amount(data[r], c) ELSE Zero,
              C5_FieldSum(rows, r, c + 1))

RECURSIVE C5_NegativeSum(_, _, _)
\* the sum of the absolute values of the routed cells of the given rows
\* whose text matches a point keyword and no keyword of a category tried
\* before, from cell c of row r on
C5_NegativeSum(rows, r, c) ==
    IF r > Len(data) THEN Zero
    ELSE IF r \notin rows \/ c > Len(data[r]) THEN C5_NegativeSum(rows, r + 1, 1)
    ELSE FAdd(IF /\ Routed(data[r], c)
                 /\ ContainsAny(C3_Text(data[r], c), point_terms)
                 /\ ~ContainsAny(C3_Text(data[r], c),
                                 fba_terms \cup commission_terms \cup shipping_terms)
              THEN FAbs(Amount(data[r], c)) ELSE Zero,
              C5_NegativeSum(rows, r, c + 1))

\* C5 as stated, in the months whose rows hold no negative amount: the
\* point-cost bucket holds the sum of the values of the point-cost fields
C5_PointFieldAlwaysAdded ==
    kind = "expense" =>
        \A month \in DOMAIN results :
            C2_RoutedCells(RowsOf(month)) = {} =>
                results[month]["PointCost_" \o Suffix] = C5_FieldSum(RowsOf(month), 1, 1)

\* C5: a point-cost field is read under the negative-value rule like every
\* other column: the point-cost bucket of a month holds the sum of the
\* absolute values of the negative cells whose text matches a point keyword
\* and no fulfillment, commission or shipping keyword, whatever the net
\* amount of their row; a zero or positive point-cost field adds nothing, so
\* the bucket is 0 in a month whose rows hold no negative amount
C5_PointFieldNegativeOnly ==
    kind = "expense" =>
        \A month \in DOMAIN results :
            /\ results[month]["PointCost_" \o Suffix] = C5_NegativeSum(RowsOf(month), 1, 1)
            /\ C2_RoutedCells(RowsOf(month)) = {} =>
                  results[month]["PointCost_" \o Suffix] = Zero

\* C5: a positive point-cost field (50) has added nothing, and a negative
\* one (-10) in a row of positive net amount has added 10
C5_Witness ==
    /\ kind = "expense" /\ pc = "done"
    /\ data = <<ExpensePointRow, ExpenseOrderRow>>
    /\ C5_FieldSum({1}, 1, 1) = Fin(50 * Scale)
    /\ returned[<<"2", "0", "2", "5", "-", "0", "8">>]["PointCost_" \o Suffix] = 0
    /\ returned[<<"2", "0", "2", "5", "-", "0", "7">>]["PointCost_" \o Suffix] = 10

----------------------------------------------------------------------------
(* The advertising classifier *)

\* C6: while process_ad_data_improved reads a table, both buckets of every
\* month hold the sum, over the rows of the month, of the value of the first
\* column of the row that is named like spend, not excluded, and strictly
\* positive; no other column adds anything, so a row with several spend
\* columns counts once and zero and negative values never count; the two
\* buckets are equal and not negative, in the accumulator and in the
\* aggregate returned
C6_FirstSpendColumn ==
    kind = "ad" =>
        /\ Accumulated
        /\ \A month \in DOMAIN results :
              /\ results[month]["SponsoredProductAd_" \o Suffix] =
                    results[month]["AdTotal_" \o Suffix]
              /\ ~FNegative(results[month]["AdTotal_" \o Suffix])
        /\ \A month \in DOMAIN returned :
              /\ returned[month]["SponsoredProductAd_" \o Suffix] =
                    returned[month]["AdTotal_" \o Suffix]
              /\ returned[month]["AdTotal_" \o Suffix] >= 0

\* C6: a row with spend columns of 300, 200 and 100 has added 300, and a row
\* whose first spend column is 0 has added the 45 of its second one
C6_Witness ==
    /\ kind = "ad" /\ pc = "done"
    /\ data = <<AdThreeSpendRow, AdZeroFirstRow>>
    /\ Cardinality(C6_Qualifying(AdThreeSpendRow)) = 3
    /\ returned[<<"2", "0", "2", "5", "-", "0", "7">>]["SponsoredProductAd_" \o Suffix] = 300
    /\ returned[<<"2", "0", "2", "5", "-", "0", "7">>]["AdTotal_" \o Suffix] = 300
    /\ returned[<<"2", "0", "2", "5", "-", "0", "8">>]["AdTotal_" \o Suffix] = 45

----------------------------------------------------------------------------
(* The shop-sales classifier *)

\* C7: while process_mercari_data reads a table, every bucket of a month
\* holds the sum of what the first matching rule adds for each column of the
\* month's rows: '売上' with '税込' to メルカリShops and 売上高合計;
\* '販売手数料' with '税込' to プラットフォーム手数料_メルカリ; '利益' to
\* 売上総利益; '送料' to 運送費（送料）.  Amazon, Amazon2 and the two
\* Amazon fee buckets are 0 throughout and in the aggregate returned.
C7_ShopRouting ==
    kind = "mercari" =>
        /\ Accumulated
        /\ \A month \in DOMAIN results :
              \A b \in {"Amazon", "Amazon2", "PlatformFee_Amazon", "PlatformFee_Amazon2"} :
                  results[month][b] = Zero
        /\ \A month \in DOMAIN returned :
              \A b \in {"Amazon", "Amazon2", "PlatformFee_Amazon", "PlatformFee_Amazon2"} :
                  returned[month][b] = 0

\* C7: a row with a column for every rule and a row whose names overlap have
\* been classified: '売上販売手数料(税込)' fell under the sales rule, '売上'
\* and '販売手数料' without '税込' under none, '送料利益' under profit
C7_Witness ==
    /\ kind = "mercari" /\ pc = "done"
    /\ data = <<ShopFullRow, ShopOverlapRow>>
    /\ returned[<<"2", "0", "2", "5", "-", "0", "7">>] =
          [Amazon |-> 0, Amazon2 |-> 0, MercariShops |-> 1000, PlatformFee_Amazon |-> 0,
           PlatformFee_Amazon2 |-> 0, PlatformFee_Mercari |-> 100, ShippingCost |-> 200,
           GrossProfit |-> 700, SalesTotal |-> 1000]
    /\ returned[<<"2", "0", "2", "5", "-", "0", "8">>] =
          [Amazon |-> 0, Amazon2 |-> 0, MercariShops |-> 50, PlatformFee_Amazon |-> 0,
           PlatformFee_Amazon2 |-> 0, PlatformFee_Mercari |-> 0, ShippingCost |-> 0,
           GrossProfit |-> 30, SalesTotal |-> 50]

----------------------------------------------------------------------------
(* The multi-marketplace-route classifier *)

\* C8: while process_hanro_data reads a table, every bucket of a month holds
\* the sum of what the rows of the month add: a price-like column adds to
\* メルカリShops when the row's 'mall' field is 'mercari' in any case, else to
\* the bucket of the caller's account (Amazon for a_m, Amazon2 otherwise),
\* and in both cases to 売上高合計; a profit-like column adds to 売上総利益
\* and a shipping-like column to 運送費（送料） whatever the mall
C8_RouteByMall ==
    kind = "hanro" => Accumulated

\* C8: a row of mall 'mercari' and a row of mall 'amazon' of one month have
\* been classified
C8_Witness ==
    /\ kind = "hanro" /\ pc = "done"
    /\ data = <<RouteMercariRow, RouteAmazonRow>>
    /\ returned[<<"2", "0", "2", "5", "-", "0", "7">>]["MercariShops"] = 1000
    /\ returned[<<"2", "0", "2", "5", "-", "0", "7">>][Revenue] = 2000
    /\ returned[<<"2", "0", "2", "5", "-", "0", "7">>]["SalesTotal"] = 3000
    /\ returned[<<"2", "0", "2", "5", "-", "0", "7">>]["GrossProfit"] = 800
    /\ returned[<<"2", "0", "2", "5", "-", "0", "7">>]["ShippingCost"] = 300

----------------------------------------------------------------------------
(* Every classifier *)

\* C9: the bucket names the running source type declares for the account
C9_Declared ==
    CASE kind = "makad" ->
            {Revenue, "MercariShops", Fee, "PlatformFee_Mercari", "ShippingCost",
             "GrossProfit", "SalesTotal"}
      [] kind \in {"mercari", "hanro"} ->
            {"Amazon", "Amazon2", "MercariShops", "PlatformFee_Amazon",
             "PlatformFee_Amazon2", "PlatformFee_Mercari", "ShippingCost",
             "GrossProfit", "SalesTotal"}
      [] kind = "expense" ->
            {"AmazonFee_" \o Suffix, "FBAFee_" \o Suffix, "ShippingFee_" \o Suffix,
             "PointCost_" \o Suffix, "OtherExpense_" \o Suffix, "ExpenseTotal_" \o Suffix}
      [] kind = "ad" ->
            {"SponsoredProductAd_" \o Suffix, "AdTotal_" \o Suffix}

\* C9: how many buckets the running source type declares
C9_Count ==
    CASE kind = "makad" -> 7
      [] kind \in {"mercari", "hanro"} -> 9
      [] kind = "expense" -> 6
      [] kind = "ad" -> 2

\* C9: every month present, in the accumulator after every row and in the
\* aggregate returned, maps exactly the buckets its source type declares for
\* the account (7 for a ledger, 9 for shop sales and multi-route, 6 for
\* expenses, 2 for advertising), and every value returned is an integer
C9_BucketPresence ==
    /\ \A month \in DOMAIN results :
          /\ DOMAIN results[month] = C9_Declared
          /\ Cardinality(DOMAIN results[month]) = C9_Count
    /\ \A month \in DOMAIN returned :
          /\ DOMAIN returned[month] = C9_Declared
          /\ Cardinality(DOMAIN returned[month]) = C9_Count
          /\ \A b \in C9_Declared : returned[month][b] \in Int

\* C9: a month is present whose row added nothing to any bucket
C9_Witness ==
    /\ kind = "ad" /\ pc = "done"
    /\ data = <<AdNegativeRow>>
    /\ DOMAIN returned = {<<"2", "0", "2", "5", "-", "1", "0">>}
    /\ \A b \in C9_Declared : returned[<<"2", "0", "2", "5", "-", "1", "0">>][b] = 0

\* C10: the integer a float becomes when its fraction is discarded
C10_TowardZero(x) ==
    LET floor == x.v \div Scale
    IN  IF x.v < 0 /\ x.v % Scale # 0 THEN floor + 1 ELSE floor

\* C10: every bucket of the aggregate a classifier returns is the sum the
\* rules add over all the rows of the month, with its fraction discarded
\* once, after the last row: two rows of 0.5 return 1, one row of -1.5
\* returns -1
C10_TruncatedOnce ==
    (pc = "done" /\ ~failed) =>
        /\ DOMAIN returned = Months
        /\ \A month \in DOMAIN returned :
              LET sums == ExpectedSums(month, DOMAIN returned[month])
              IN  \A b \in DOMAIN returned[month] :
                      returned[month][b] = C10_TowardZero(sums[b])
        /\ (kind = "makad" /\ data = <<LedgerHalfRow, LedgerHalfRow>>) =>
              returned[<<"2", "0", "2", "5", "-", "0", "8">>][Revenue] = 1
        /\ (kind = "makad" /\ data = <<LedgerMinusRow>>) =>
              returned[<<"2", "0", "2", "5", "-", "0", "9">>][Revenue] = -1

\* C10: a row of 0.5 and a row of -1.5 have returned 0 and -1, each in its
\* month
C10_Witness ==
    /\ kind = "makad" /\ pc = "done" /\ ~failed
    /\ data = <<LedgerHalfRow, LedgerMinusRow>>
    /\ results[<<"2", "0", "2", "5", "-", "0", "8">>][Revenue] = Fin(5)
    /\ results[<<"2", "0", "2", "5", "-", "0", "9">>][Revenue] = Fin(-15)
    /\ returned[<<"2", "0", "2", "5", "-", "0", "8">>][Revenue] = 0
    /\ returned[<<"2", "0", "2", "5", "-", "0", "9">>][Revenue] = -1

----------------------------------------------------------------------------
(* The account tag *)

\* C11: the bucket names that differ between the two accounts, a_m first
C11_Pairs ==
    {<<"Amazon", "Amazon2">>, <<"PlatformFee_Amazon", "PlatformFee_Amazon2">>,
     <<"AmazonFee_A-M", "AmazonFee_O-AA">>, <<"FBAFee_A-M", "FBAFee_O-AA">>,
     <<"ShippingFee_A-M", "ShippingFee_O-AA">>, <<"PointCost_A-M", "PointCost_O-AA">>,
     <<"OtherExpense_A-M", "OtherExpense_O-AA">>, <<"ExpenseTotal_A-M", "ExpenseTotal_O-AA">>,
     <<"SponsoredProductAd_A-M", "SponsoredProductAd_O-AA">>,
     <<"AdTotal_A-M", "AdTotal_O-AA">>}

\* C11: the name a bucket has under the other account
C11_Twin(b) ==
    IF \E p \in C11_Pairs : p[1] = b THEN (CHOOSE p \in C11_Pairs : p[1] = b)[2]
    ELSE IF \E p \in C11_Pairs : p[2] = b THEN (CHOOSE p \in C11_Pairs : p[2] = b)[1]
    ELSE b

\* C11: an aggregate with every bucket under the name of the other account
C11_Renamed(agg) ==
    [month \in DOMAIN agg |->
        [b \in {C11_Twin(x) : x \in DOMAIN agg[month]} |-> agg[month][C11_Twin(b)]]]

\* C11: the account-specific bucket names a classifier writes under a tag
C11_Specific(k, account) ==
    CASE k = "makad" -> {amazon_key(account), fee_key(account)}
      [] k = "hanro" -> {amazon_key(account)}
      [] k = "expense" -> expense_buckets(account)
      [] k = "ad" -> ad_buckets(account)
      [] OTHER -> {}

\* C11: for the ledger, multi-route, expense and advertising classifier and
\* every table, the accumulator and the aggregate returned under
\* tag o_aa are those under tag a_m with the account-specific buckets
\* renamed (Amazon <-> Amazon2, プラットフォーム手数料_Amazon <-> ..._Amazon2,
\* _A-M <-> _O-AA): same periods, same amounts, same failures; the
\* account-specific names of the two tags are disjoint; and the call that
\* ran returned the aggregate of its own tag
C11_TagRenamesOnly ==
    (kind # "mercari" /\ pc = "done") =>
        LET a_m == process_rows(kind, "a_m", data, 1, Empty)
            o_aa == process_rows(kind, "o_aa", data, 1, Empty)
        IN  /\ o_aa.res = C11_Renamed(a_m.res)
            /\ o_aa.raised = a_m.raised
            /\ end_of_call(o_aa) = C11_Renamed(end_of_call(a_m))
            /\ C11_Specific(kind, "a_m") \cap C11_Specific(kind, "o_aa") = {}
            /\ C11_Specific(kind, "o_aa") = {C11_Twin(b) : b \in C11_Specific(kind, "a_m")}
            /\ returned = end_of_call(IF account_type = "a_m" THEN a_m ELSE o_aa)

\* C11: a ledger row with price, shipping, point, fee and profit columns has
\* been classified under o_aa, and the same table under a_m gives the same
\* amounts in Amazon and プラットフォーム手数料_Amazon
C11_Witness ==
    /\ kind = "makad" /\ pc = "done" /\ account_type = "o_aa"
    /\ data = <<LedgerFullRow>>
    /\ returned[<<"2", "0", "2", "5", "-", "0", "7">>]["Amazon2"] = 400
    /\ returned[<<"2", "0", "2", "5", "-", "0", "7">>]["PlatformFee_Amazon2"] = 150
    /\ process_data("makad", "a_m", data)[<<"2", "0", "2", "5", "-", "0", "7">>]["Amazon"] = 400
    /\ process_data("makad", "a_m", data)[<<"2", "0", "2", "5", "-", "0", "7">>]["PlatformFee_Amazon"] = 150
    /\ "Amazon2" \notin DOMAIN process_data("makad", "a_m", data)[<<"2", "0", "2", "5", "-", "0", "7">>]

----------------------------------------------------------------------------
(* Rows that are left out *)

\* C12: the columns of a row whose name matches the date keywords of the
\* running source type
C12_DateNamed(row) ==
    {c \in 1..Len(row) :
        CASE kind \in {"makad", "mercari"} ->
                Contains(row[c][1], <<"U65E5">>) \/ Contains(Lower(row[c][1]), <<"d", "a", "t", "e">>)
          [] kind = "hanro" -> Contains(row[c][1], <<"A", "t">>) \/ Contains(row[c][1], <<"U65E5">>)
          [] kind = "expense" -> ContainsAny(CleanKey(row[c][1]), expense_date_terms)
          [] kind = "ad" -> ContainsAny(CleanKey(row[c][1]), ad_date_terms)}

\* C12: the period of a row that has a date-named column: that of the cell
\* of the first such column, the fallback when the cell is blank
C12_Period(row) == extract_month_from_date(row[First(C12_DateNamed(row))][2])

\* C12 as stated: every row read that has a date-named column is in the
\* aggregate, under the period of that column's cell, 2025-06 when the cell
\* is blank; the accumulator of a table of one such row holds the row's
\* amounts under that period
C12_BlankDateAggregated ==
    ~failed =>
        /\ \A r \in 1..Len(data) :
              C12_DateNamed(data[r]) # {} => C12_Period(data[r]) \in DOMAIN results
        /\ (Len(data) = 1 /\ C12_DateNamed(data[1]) # {}) =>
              /\ DOMAIN results = {C12_Period(data[1])}
              /\ results[C12_Period(data[1])] =
                    SumCells({1}, [b \in C9_Declared |-> Zero], 1, 1)

----------------------------------------------------------------------------
(* Rows that raise *)

\* C13: processing the row raises: in the search for its date, on its 'mall'
\* cell, or on a column named None in the column loop of the expense or the
\* advertising classifier
C13_Raises(row) ==
    \/ row_raises(kind, row)
    \/ /\ kind = "expense"
       /\ \/ expense_row_raises(row)
          \/ /\ ~Falsy(expense_date_value(row))
             /\ \E i \in NoneKeys(row) : ~Falsy(row[i][2])
    \/ /\ kind = "ad"
       /\ \/ ad_row_raises(row)
          \/ /\ ~Falsy(ad_date_value(row))
             /\ \E i \in NoneKeys(row) :
                   ~Falsy(row[i][2]) /\ \A c \in C6_Qualifying(row) : i < c

\* C13: the rows of the table whose processing does not raise
C13_OtherRows == SelectSeq(data, LAMBDA row : ~C13_Raises(row))

\* C13 as stated: a row whose processing raises is skipped alone, and the
\* classifier returns the aggregate of all the other rows of the table
C13_RowFailureIsolated ==
    pc = "done" => returned = process_data(kind, account_type, C13_OtherRows)

----------------------------------------------------------------------------
(* C14 *)

\* what the k-th uploaded source contributes: the aggregate of its classifier,
\* and nothing when the file cannot be read or the classifier fails
C14_Contribution(k) ==
    LET source == file_paths[k]
    IN  IF ~source.file.readable THEN Empty
        ELSE process_data(kind_of(source.key), account_of(source.key),
                          safe_read_csv(source.file).data)

\* the sources that fail: in reading, or in classifying lines that were read
C14_Failing ==
    {k \in 1..Len(file_paths) :
        \/ ~file_paths[k].file.readable
        \/ LET source == file_paths[k]
               run == process_rows(kind_of(source.key), account_of(source.key),
                                   safe_read_csv(source.file).data, 1, Empty)
           IN  run.raised \/ ~AllFinite(run.res)}

RECURSIVE C14_ContributionsFrom(_)
\* the contributions of the sources from the k-th on, in upload order
C14_ContributionsFrom(k) ==
    IF k > Len(file_paths) THEN <<>>
    ELSE <<C14_Contribution(k)>> \o C14_ContributionsFrom(k + 1)

\* the sources, of the given contributions, that hold the bucket in the period
C14_Holding(given, month, bucket) ==
    {k \in 1..Len(given) : month \in DOMAIN given[k] /\ bucket \in DOMAIN given[k][month]}

RECURSIVE C14_Sum(_, _, _, _)
\* the bucket of the period summed over a set of sources
C14_Sum(given, sources, month, bucket) ==
    IF sources = {} THEN 0
    ELSE LET k == CHOOSE x \in sources : TRUE
         IN  given[k][month][bucket] + C14_Sum(given, sources \ {k}, month, bucket)

\* the unified aggregate is the bucket-wise sum of the given contributions
\* over the sources outside the failing ones
C14_SumOfOthers(unified, given, failing) ==
    /\ DOMAIN unified = UNION {DOMAIN given[k] : k \in (1..Len(given)) \ failing}
    /\ \A month \in DOMAIN unified :
           /\ DOMAIN unified[month] =
                  merged_buckets \cup
                  UNION {DOMAIN given[k][month] :
                            k \in {j \in 1..Len(given) : month \in DOMAIN given[j]}}
           /\ \A bucket \in DOMAIN unified[month] :
                  unified[month][bucket] =
                      C14_Sum(given, C14_Holding(given, month, bucket) \ failing, month, bucket)

\* C14: when the file loop is over every uploaded source has been passed, a
\* failing source has contributed the empty aggregate, and the unified
\* aggregate holds, for every period of a successful source, the sum of every
\* bucket over the successful sources that hold it, whatever the position of
\* the failing sources in the upload
C14_SourceFailureIsolated ==
    pc = "merged" =>
        LET given == C14_ContributionsFrom(1)
        IN  /\ next_file = Len(file_paths) + 1
            /\ \A k \in C14_Failing : given[k] = Empty
            /\ Len(all_results) = Cardinality({k \in 1..Len(given) : given[k] # Empty})
            /\ C14_SumOfOthers(merged_results, given, C14_Failing)

\* an upload whose shop file cannot be read and whose multi-route file fails
\* in classification, merged with the ledger file that succeeded
C14_Witness ==
    /\ pc = "merged"
    /\ Len(file_paths) = 3
    /\ file_paths[1].file = Readable(<<LedgerScenarioRow>>)
    /\ file_paths[2].file = Readable(<<RouteShortRow>>)
    /\ file_paths[3].file = Unreadable
    /\ C14_Failing = {2, 3}
    /\ Len(all_results) = 1
    /\ merged_results = merge_monthly_data(<<C14_Contribution(1)>>)
    /\ merged_results # Empty

----------------------------------------------------------------------------
(* C15 *)

\* the cell, with text that reads as a non-finite number taken as 0
C15_SoftCell(cell) ==
    IF cell[2] # None /\ safe_float_convert(cell[2]).t # "fin" THEN Col(cell[1], <<"0">>) ELSE cell

\* the table with every such cell taken as 0
C15_Softened(rows) ==
    [r \in 1..Len(rows) |-> [c \in 1..Len(rows[r]) |-> C15_SoftCell(rows[r][c])]]

\* C15: whatever the text of a cell, the classifier returns the aggregate it
\* returns for the table in which the cells that read as a non-finite number
\* are taken as 0
C15_CellNeverFails ==
    pc = "done" => returned = process_data(kind, account_type, C15_Softened(data))

----------------------------------------------------------------------------
(* C16 *)

\* the text of the value without ',', the yen signs and '円', stripped
C16_Cleaned(v) ==
    Strip(SelectSeq(Str(v), LAMBDA c : c \notin {",", "U00A5", "UFFE5", "U5186"}))

\* the tokens that stand for no amount
C16_ZeroTokens == {<<"n", "o", "n", "e">>, <<"n", "u", "l", "l">>, <<"n", "a", "n">>, <<"-">>, <<>>}

\* the text without its sign
C16_Unsigned(text) == IF text # <<>> /\ text[1] \in {"+", "-"} THEN Tail(text) ELSE text

\* a decimal number: an optional sign, then digits with at most one point
C16_Decimal(text) ==
    LET body == C16_Unsigned(text)
    IN  /\ \E i \in 1..Len(body) : IsDigit(body[i])
        /\ \A i \in 1..Len(body) : IsDigit(body[i]) \/ body[i] = "."
        /\ Cardinality({i \in 1..Len(body) : body[i] = "."}) <= 1

\* the number a decimal text denotes, in tenths (texts of this model carry at
\* most one decimal)
C16_Denoted(text) ==
    LET body == C16_Unsigned(text)
        point == IF \E i \in 1..Len(body) : body[i] = "."
                 THEN CHOOSE i \in 1..Len(body) : body[i] = "."
                 ELSE Len(body) + 1
        whole == SubSeq(body, 1, point - 1)
        tenths == IF point < Len(body) THEN DigitVal(body[point + 1]) ELSE 0
        magnitude == Scale * DigitsVal(whole) + tenths
    IN  Fin(IF text[1] = "-" THEN 0 - magnitude ELSE magnitude)

\* C16: safe_float_convert returns 0 for None, blank text and the tokens
\* none, null, nan, '-', '' of the cleaned text in any case, 0 for every
\* cleaned text that is not a decimal number, and otherwise the number the
\* cleaned text denotes
C16_ValueNormalizerTotal ==
    pc = "converted" =>
        /\ (call_value = None \/ Lower(C16_Cleaned(call_value)) \in C16_ZeroTokens)
               => answer = Zero
        /\ (call_value # None /\ ~C16_Decimal(C16_Cleaned(call_value))) => answer = Zero
        /\ (call_value # None /\ C16_Decimal(C16_Cleaned(call_value)))
               => answer = C16_Denoted(C16_Cleaned(call_value))

----------------------------------------------------------------------------
(* C17 *)

\* a period key of the form YYYY-MM within the ranges
C17_PeriodKey(text) ==
    /\ Len(text) = 7
    /\ \A i \in {1, 2, 3, 4, 6, 7} : IsDigit(text[i])
    /\ text[5] = "-"
    /\ DigitsVal(SubSeq(text, 1, 4)) \in 2020..2030
    /\ DigitsVal(SubSeq(text, 6, 7)) \in 1..12

\* the stripped text of a date cell
C17_Text(d) == IF d = None THEN <<>> ELSE Strip(d)

\* the year text and the month text the format rules take from a date text:
\* on '/', (a) YYYY/MM.., (b) MM/DD/YYYY, (c) YY/MM; else on '-', YYYY-MM..
C17_Candidate(d) ==
    LET text == C17_Text(d)
        bySlash == Split(text, "/")
        byDash == Split(text, "-")
    IN  IF \E i \in 1..Len(text) : text[i] = "/"
        THEN IF Len(bySlash[1]) = 4
             THEN [rule |-> "a", year |-> bySlash[1], month |-> bySlash[2]]
             ELSE IF Len(bySlash) = 3 /\ Len(bySlash[3]) = 4
             THEN [rule |-> "b", year |-> bySlash[3], month |-> bySlash[1]]
             ELSE [rule |-> "c", year |-> <<"2", "0">> \o bySlash[1], month |-> bySlash[2]]
        ELSE IF \E i \in 1..Len(text) : text[i] = "-"
        THEN [rule |-> "dash", year |-> byDash[1], month |-> byDash[2]]
        ELSE [rule |-> "none", year |-> <<>>, month |-> <<>>]

\* the candidate reads as a year and a month within the ranges
C17_InRange(d) ==
    LET cand == C17_Candidate(d)
    IN  /\ cand.rule # "none"
        /\ PyInt(cand.year).ok /\ PyInt(cand.year).v \in 2020..2030
        /\ PyInt(cand.month).ok /\ PyInt(cand.month).v \in 1..12

\* C17: extract_month_from_date returns, for every input, a key of the form
\* YYYY-MM with the year in 2020..2030 and the month in 01..12, and the
\* fallback 2025-06 for blank or missing input, for unparseable input and for
\* a candidate year or month outside the ranges
C17_ResolverTotal ==
    pc = "resolved" =>
        /\ C17_PeriodKey(answer)
        /\ ~C17_InRange(call_date_str) => answer = FallbackMonth

\* a year behind the range falls back
C17_Witness ==
    /\ pc = "resolved"
    /\ call_date_str = <<"2", "0", "3", "1", "/", "0", "7">>
    /\ C17_Candidate(call_date_str).rule = "a"
    /\ answer = <<"2", "0", "2", "5", "-", "0", "6">>

----------------------------------------------------------------------------
(* C18 *)

\* the key of the candidate the format rules take from the date text
C18_Key(d) ==
    IntToStr(PyInt(C17_Candidate(d).year).v) \o <<"-">> \o Pad02(PyInt(C17_Candidate(d).month).v)

\* C18: the key returned is the one of the first format rule that matches:
\* the '/' rules (a), (b), (c) for a text with '/', the '-' rule only for a
\* text without '/'; a text with '/' whose '/' rule gives no key in range
\* gets the fallback whatever its '-' parts are
C18_FormatRules ==
    pc = "resolved" =>
        /\ C17_InRange(call_date_str) => answer = C18_Key(call_date_str)
        /\ (Contains(C17_Text(call_date_str), <<"/">>) /\ ~C17_InRange(call_date_str))
               => answer = FallbackMonth
        /\ call_date_str \in {<<"2", "0", "2", "5", "/", "0", "7">>, <<"0", "7", "/", "1", "5", "/", "2", "0", "2", "5">>, <<"2", "5", "/", "0", "7">>, <<"2", "0", "2", "5", "-", "7">>}
               => answer = <<"2", "0", "2", "5", "-", "0", "7">>

\* MM/DD/YYYY resolved by rule (b)
C18_Witness ==
    /\ pc = "resolved"
    /\ call_date_str = <<"0", "7", "/", "1", "5", "/", "2", "0", "2", "5">>
    /\ C17_Candidate(call_date_str).rule = "b"
    /\ answer = <<"2", "0", "2", "5", "-", "0", "7">>

----------------------------------------------------------------------------
(* C19 *)

\* the aggregates in the order given by a permutation of their positions
C19_Reordered(sources, order) == [i \in 1..Len(sources) |-> sources[order[i]]]

\* the aggregates the file loop collected, as the classifiers returned them
C19_Collected ==
    SelectSeq(C14_ContributionsFrom(1), LAMBDA contribution : contribution # Empty)

\* C19: the unified aggregate has the periods of all inputs and, for every
\* bucket an input holds in a period, the sum of that bucket over the inputs
\* that hold it; merging the inputs in any other order gives the same unified
\* aggregate, and the inputs are what they were before the merge
C19_MergeIsSum ==
    pc = "merged" =>
        /\ DOMAIN merged_results = UNION {DOMAIN all_results[k] : k \in 1..Len(all_results)}
        /\ \A k \in 1..Len(all_results) :
               \A month \in DOMAIN all_results[k] :
                   \A bucket \in DOMAIN all_results[k][month] :
                       merged_results[month][bucket] =
                           C14_Sum(all_results, C14_Holding(all_results, month, bucket),
                                   month, bucket)
        /\ \A order \in Permutations(1..Len(all_results)) :
               merge_monthly_data(C19_Reordered(all_results, order)) = merged_results
        /\ all_results = C19_Collected

\* two inputs hold the same bucket of the same period, both with an amount,
\* and a bucket of that period is held by one of them only
C19_Witness ==
    /\ pc = "merged"
    /\ Len(all_results) >= 2
    /\ \E month \in DOMAIN all_results[1] \cap DOMAIN all_results[2] :
           /\ \E bucket \in DOMAIN all_results[1][month] \cap DOMAIN all_results[2][month] :
                  /\ all_results[1][month][bucket] # 0
                  /\ all_results[2][month][bucket] # 0
                  /\ merged_results[month][bucket] =
                         all_results[1][month][bucket] + all_results[2][month][bucket]
           /\ \E bucket \in DOMAIN all_results[2][month] \ DOMAIN all_results[1][month] :
                  /\ all_results[2][month][bucket] # 0
                  /\ \A k \in 1..Len(all_results) :
                         (k # 2 /\ month \in DOMAIN all_results[k])
                             => bucket \notin DOMAIN all_results[k][month]
                  /\ merged_results[month][bucket] = all_results[2][month][bucket]

----------------------------------------------------------------------------
(* C20 *)

\* the nine bucket names the merger gives every period
C20_CoreBuckets ==
    {"Amazon", "Amazon2", "MercariShops", "PlatformFee_Amazon", "PlatformFee_Amazon2",
     "PlatformFee_Mercari", "ShippingCost", "GrossProfit", "SalesTotal"}

\* C20 as stated: merging a single aggregate returns that aggregate, with the
\* same periods and in every period the same bucket names and values
C20_MergeIdentity ==
    (pc = "merged" /\ Len(all_results) = 1) => merged_results = all_results[1]

\* C20 amended: merging a single aggregate A returns the periods of A and in
\* every period the buckets of A with their values, together with the nine
\* core buckets, at 0 where A does not hold them
C20_MergeKeepsSingle ==
    (pc = "merged" /\ Len(all_results) = 1) =>
        /\ DOMAIN merged_results = DOMAIN all_results[1]
        /\ \A month \in DOMAIN merged_results :
               /\ DOMAIN merged_results[month] =
                      DOMAIN all_results[1][month] \cup C20_CoreBuckets
               /\ \A bucket \in DOMAIN all_results[1][month] :
                      merged_results[month][bucket] = all_results[1][month][bucket]
               /\ \A bucket \in C20_CoreBuckets \ DOMAIN all_results[1][month] :
                      merged_results[month][bucket] = 0

\* an expense aggregate merged alone: its buckets carry the account suffix
\* and the unified period holds the core bucket Amazon at 0 beside them
C20_Witness ==
    /\ pc = "merged"
    /\ Len(file_paths) = 1
    /\ kind_of(file_paths[1].key) = "expense"
    /\ Len(all_results) = 1
    /\ \E month \in DOMAIN all_results[1] :
           /\ DOMAIN all_results[1][month] \cap C20_CoreBuckets = {}
           /\ \E bucket \in DOMAIN all_results[1][month] :
                  /\ all_results[1][month][bucket] # 0
                  /\ merged_results[month][bucket] = all_results[1][month][bucket]
           /\ merged_results[month]["Amazon"] = 0

----------------------------------------------------------------------------
(* C21 *)

\* the months since year 0 of a period key YYYY-MM
C21_MonthIndex(key) == 12 * DigitsVal(SubSeq(key, 1, 4)) + DigitsVal(SubSeq(key, 6, 7))

\* C21: the report has exactly one row per period of the unified aggregate,
\* and its rows are strictly ascending by period key, in the order of str
\* and in the order of time
C21_ReportOrdered ==
    pc = "projected" =>
        /\ Len(spreadsheet_data) = Cardinality(DOMAIN merged_results)
        /\ {spreadsheet_data[i].Period : i \in 1..Len(spreadsheet_data)} = DOMAIN merged_results
        /\ \A i \in 1..Len(spreadsheet_data) : \A j \in 1..Len(spreadsheet_data) :
               i < j =>
                   /\ StrLess(spreadsheet_data[i].Period, spreadsheet_data[j].Period)
                   /\ C21_MonthIndex(spreadsheet_data[i].Period)
                          < C21_MonthIndex(spreadsheet_data[j].Period)

\* three periods, of which the unified aggregate received the latest first
C21_Witness ==
    /\ pc = "projected"
    /\ Len(all_results) = 3
    /\ DOMAIN all_results[1] = {<<"2", "0", "2", "5", "-", "0", "9">>}
    /\ DOMAIN all_results[2] = {<<"2", "0", "2", "5", "-", "0", "7">>}
    /\ file_paths[1].file = Readable(<<LedgerMinusRow>>)
    /\ Len(spreadsheet_data) = 3
    /\ spreadsheet_data[1].Period = <<"2", "0", "2", "5", "-", "0", "7">>
    /\ spreadsheet_data[2].Period = <<"2", "0", "2", "5", "-", "0", "8">>
    /\ spreadsheet_data[3].Period = <<"2", "0", "2", "5", "-", "0", "9">>

----------------------------------------------------------------------------
(* C22 *)

\* the change n/d is the one the claim gives for previous and current: 0 or
\* 100 behind a previous value of 0, else (current - previous) / previous * 100
C22_IsChange(change, previous, current) ==
    /\ change.d > 0
    /\ IF previous = 0 /\ current <= 0 THEN change.n = 0
       ELSE IF previous = 0 /\ current > 0 THEN change.n = 100 * change.d
       ELSE change.n * previous = (current - previous) * 100 * change.d

\* C22: the first report row has 0 in both change fields, and every later
\* row has the change from the row before it to itself, of the revenue total
\* and of the gross profit; a change is always a finite number
C22_ChangeFields ==
    pc = "projected" =>
        /\ calculate_change_percentage(100, 150) = Whole(50)
        /\ calculate_change_percentage(20, 20) = Whole(0)
        /\ calculate_change_percentage(0, 500) = Whole(100)
        /\ \A i \in 1..Len(spreadsheet_data) :
               IF i = 1
               THEN /\ spreadsheet_data[i].SalesChange = Whole(0)
                    /\ spreadsheet_data[i].ProfitChange = Whole(0)
               ELSE /\ C22_IsChange(spreadsheet_data[i].SalesChange,
                                    spreadsheet_data[i - 1].SalesTotal,
                                    spreadsheet_data[i].SalesTotal)
                    /\ C22_IsChange(spreadsheet_data[i].ProfitChange,
                                    spreadsheet_data[i - 1].GrossProfit,
                                    spreadsheet_data[i].GrossProfit)

\* a report whose second row follows a revenue total of 0 with a positive
\* one and whose third row falls from a positive revenue total
C22_Witness ==
    /\ pc = "projected"
    /\ Len(spreadsheet_data) = 3
    /\ spreadsheet_data[1].SalesTotal = 0
    /\ spreadsheet_data[2].SalesTotal > 0
    /\ spreadsheet_data[2].SalesChange = Whole(100)
    /\ spreadsheet_data[3].SalesTotal < spreadsheet_data[2].SalesTotal
    /\ spreadsheet_data[3].SalesChange.n < 0
    /\ spreadsheet_data[3].ProfitChange.d > 1

----------------------------------------------------------------------------
(* C23 *)

\* the report field that carries a bucket of the unified aggregate
C23_Field(bucket) ==
    CASE bucket = "Amazon" -> "Amazon_A_M"
      [] bucket = "Amazon2" -> "Amazon2_O_AA"
      [] OTHER -> bucket

\* C23: every bucket the unified aggregate holds for a period has its field
\* in the report row of that period, with the value of the bucket
C23_ReportComplete ==
    pc = "projected" =>
        \A i \in 1..Len(spreadsheet_data) :
            \A bucket \in DOMAIN merged_results[spreadsheet_data[i].Period] :
                /\ C23_Field(bucket) \in DOMAIN spreadsheet_data[i]
                /\ spreadsheet_data[i][C23_Field(bucket)] =
                       merged_results[spreadsheet_data[i].Period][bucket]

----------------------------------------------------------------------------
(* sanitize_for_json *)

\* a Python object of a response, its type before its value: a dict is the
\* sequence of its <<key, value>> items in insertion order, a list the
\* sequence of its items
Obj(type, x) == <<type, x>>

TypeOf(obj) == obj[1]

ValueOf(obj) == obj[2]

DictObj(items) == Obj("dict", items)

ListObj(items) == Obj("list", items)

FloatObj(x) == Obj("float", x)

IntObj(n) == Obj("int", n)

StrObj(text) == Obj("str", text)

\* math.isnan(obj) or math.isinf(obj) of a float
NonFinite(obj) == TypeOf(obj) = "float" /\ ~IsFinite(ValueOf(obj))

RECURSIVE sanitize_for_json_shallow(_)
\* sanitize_for_json without its list branch
sanitize_for_json_shallow(obj) ==
    IF TypeOf(obj) = "dict"
    THEN DictObj([i \in 1..Len(ValueOf(obj)) |->
                     <<ValueOf(obj)[i][1], sanitize_for_json_shallow(ValueOf(obj)[i][2])>>])
    ELSE IF NonFinite(obj) THEN IntObj(0) ELSE obj

RECURSIVE sanitize_for_json(_)
sanitize_for_json(obj) ==
    IF TypeOf(obj) = "dict"
    THEN DictObj([i \in 1..Len(ValueOf(obj)) |->
                     <<ValueOf(obj)[i][1], sanitize_for_json(ValueOf(obj)[i][2])>>])
    ELSE IF TypeOf(obj) = "list"
    THEN ListObj([i \in 1..Len(ValueOf(obj)) |-> sanitize_for_json(ValueOf(obj)[i])])
    ELSE IF NonFinite(obj) THEN IntObj(0) ELSE obj

\* the objects the calls are made with hold at most MaxNodes values
MaxNodes == 4

Scalars ==
    {IntObj(1), IntObj(2), FloatObj(Fin(15)), FloatObj(NaN), FloatObj(PosInf),
     FloatObj(NegInf), StrObj(<<"a">>)}

\* the key of the i-th item of a dict
Key(i) == IF i = 1 THEN <<"x">> ELSE IF i = 2 THEN <<"y">> ELSE <<"k">> \o IntToStr(i)

Keyed(items) == [i \in 1..Len(items) |-> <<Key(i), items[i]>>]

RECURSIVE ObjectsOfSize(_), Forests(_)
\* the objects that hold n values, themselves included
ObjectsOfSize(n) ==
    IF n = 1
    THEN Scalars \cup {ListObj(<<>>), DictObj(<<>>)}
    ELSE {ListObj(items) : items \in Forests(n - 1)}
             \cup {DictObj(Keyed(items)) : items \in Forests(n - 1)}

\* the non-empty sequences of objects that hold n values together
Forests(n) ==
    UNION {{<<first>> \o rest :
                first \in ObjectsOfSize(k),
                rest \in IF k = n THEN {<<>>} ELSE Forests(n - k)} : k \in 1..n}

\* {'x': float('nan'), 'y': [1, float('inf'), 2]}
ExampleObject ==
    DictObj(<<<<<<"x">>, FloatObj(NaN)>>,
              <<<<"y">>, ListObj(<<IntObj(1), FloatObj(PosInf), IntObj(2)>>)>>>>)

Objects == UNION {ObjectsOfSize(n) : n \in 1..MaxNodes} \cup {ExampleObject}

SanitizeInit ==
    /\ call_obj \in Objects
    /\ call_log = <<>>
    /\ store = <<>> /\ last_saved = <<>> /\ store_call = None
    /\ call_value = None
    /\ call_date_str = None
    /\ answer = None
    /\ spreadsheet_data = <<>>
    /\ pc = "sanitize"
    /\ kind = "none"
    /\ account_type = "a_m"
    /\ data = <<>>
    /\ results = Empty
    /\ returned = Empty
    /\ failed = FALSE
    /\ file_paths = <<>>
    /\ next_file = 1
    /\ all_results = <<>>
    /\ merged_results = Empty

\* the call sanitize_for_json(call_obj) returns
Sanitize ==
    /\ pc = "sanitize"
    /\ answer' = sanitize_for_json(call_obj)
    /\ pc' = "sanitized"
    /\ UNCHANGED <<kind, account_type, data, results, returned, failed, call_value, call_date_str>>
    /\ UNCHANGED upload_vars
    /\ UNCHANGED service_vars

SanitizeNext == Sanitize

SanitizeSpec == SanitizeInit /\ [][SanitizeNext]_vars

----------------------------------------------------------------------------
(* C24 *)

RECURSIVE C24_Cleaned(_, _)
\* after is before with every non-finite float replaced by 0: the same
\* containers with the same keys in the same order and the same lengths,
\* every other scalar as it was
C24_Cleaned(before, after) ==
    IF TypeOf(before) \in {"dict", "list"}
    THEN /\ TypeOf(after) = TypeOf(before)
         /\ Len(ValueOf(after)) = Len(ValueOf(before))
         /\ \A i \in 1..Len(ValueOf(before)) :
                IF TypeOf(before) = "dict"
                THEN /\ ValueOf(after)[i][1] = ValueOf(before)[i][1]
                     /\ C24_Cleaned(ValueOf(before)[i][2], ValueOf(after)[i][2])
                ELSE C24_Cleaned(ValueOf(before)[i], ValueOf(after)[i])
    ELSE IF TypeOf(before) = "float" /\ ValueOf(before).t \in {"nan", "inf"}
    THEN after = IntObj(0)
    ELSE after = before

RECURSIVE C24_Finite(_)
\* no NaN and no infinity at any depth
C24_Finite(obj) ==
    IF TypeOf(obj) = "dict" THEN \A i \in 1..Len(ValueOf(obj)) : C24_Finite(ValueOf(obj)[i][2])
    ELSE IF TypeOf(obj) = "list" THEN \A i \in 1..Len(ValueOf(obj)) : C24_Finite(ValueOf(obj)[i])
    ELSE ~(TypeOf(obj) = "float" /\ ValueOf(obj).t \in {"nan", "inf"})

\* C24: a call of sanitize_for_json leaves its argument as it was and returns
\* an object of the same shape in which every NaN and every infinity is 0 and
\* every other value is unchanged, with no non-finite float at any depth;
\* sanitizing the returned object again returns it unchanged
C24_SanitizerTotal ==
    [][pc' = "sanitized" =>
           /\ call_obj' = call_obj
           /\ C24_Cleaned(call_obj, answer')
           /\ C24_Finite(answer')
           /\ sanitize_for_json(answer') = answer']_vars

\* the example of the claim has been sanitized
C24_Witness ==
    /\ pc = "sanitized"
    /\ call_obj = ExampleObject
    /\ answer = DictObj(<<<<<<"x">>, IntObj(0)>>,
                          <<<<"y">>, ListObj(<<IntObj(1), IntObj(0), IntObj(2)>>)>>>>)

----------------------------------------------------------------------------
(* Calls of the classifiers, the merge and the projection in one process *)

\* a process serves at most MaxCalls calls
MaxCalls == 4

\* the classifier calls made: the source type, the account tag and the table
CallInputs ==
    {[kind |-> "makad", account_type |-> "a_m", data |-> <<LedgerScenarioRow>>],
     [kind |-> "makad", account_type |-> "o_aa", data |-> <<LedgerScenarioRow>>],
     [kind |-> "makad", account_type |-> "a_m", data |-> <<LedgerHalfRow, LedgerLongRow>>],
     [kind |-> "mercari", account_type |-> "a_m", data |-> <<ShopFullRow>>],
     [kind |-> "hanro", account_type |-> "a_m", data |-> <<RouteMercariRow, RouteAmazonRow>>],
     [kind |-> "expense", account_type |-> "a_m", data |-> <<ExpenseOrderRow>>],
     [kind |-> "ad", account_type |-> "o_aa", data |-> <<AdThreeSpendRow>>]}

\* one call served: what it was given, the table after it and what it returned
Served(op, k, account, given, rows, out) ==
    [op |-> op, kind |-> k, account_type |-> account, given |-> given, data |-> rows,
     returned |-> out]

CallsInit ==
    /\ call_value = None
    /\ call_date_str = None
    /\ answer = None
    /\ ServiceIdle
    /\ pc = "calls"
    /\ kind = "none"
    /\ account_type = "a_m"
    /\ data = <<>>
    /\ results = Empty
    /\ returned = Empty
    /\ failed = FALSE
    /\ file_paths = <<>>
    /\ next_file = 1
    /\ all_results = <<>>
    /\ merged_results = Empty

\* a call process_<kind>_data(data, account_type): the classifier starts from
\* results = {}, reads the rows and returns; the caller keeps what is not empty
Classify ==
    /\ pc = "calls" /\ Len(call_log) < MaxCalls
    /\ \E input \in CallInputs :
           /\ kind' = input.kind /\ account_type' = input.account_type /\ data' = input.data
           /\ \E run \in {process_rows(input.kind, input.account_type, input.data, 1, Empty)} :
                  /\ results' = run.res
                  /\ returned' = end_of_call(run)
                  /\ failed' = (run.raised \/ ~AllFinite(run.res))
                  /\ all_results' = after_file(all_results, TRUE, end_of_call(run))
                  /\ call_log' = Append(call_log,
                                        Served("classify", input.kind, input.account_type,
                                               input.data, input.data, end_of_call(run)))
    /\ UNCHANGED <<pc, file_paths, next_file, merged_results, spreadsheet_data, call_obj>>
    /\ UNCHANGED call_vars
    /\ UNCHANGED store_vars

\* a call merge_monthly_data(all_results) on the aggregates kept so far
MergeCall ==
    /\ pc = "calls" /\ Len(call_log) < MaxCalls
    /\ merged_results' = merge_monthly_data(all_results)
    /\ call_log' = Append(call_log,
                          Served("merge", "none", "a_m", <<>>, <<>>,
                                 merge_monthly_data(all_results)))
    /\ UNCHANGED <<kind, account_type, data, results, pc, returned, failed>>
    /\ UNCHANGED <<file_paths, next_file, all_results, spreadsheet_data, call_obj>>
    /\ UNCHANGED call_vars
    /\ UNCHANGED store_vars

\* a call convert_to_spreadsheet_format(merged_results)
ProjectCall ==
    /\ pc = "calls" /\ Len(call_log) < MaxCalls
    /\ spreadsheet_data' = convert_to_spreadsheet_format(merged_results)
    /\ call_log' = Append(call_log, Served("project", "none", "a_m", <<>>, <<>>, Empty))
    /\ UNCHANGED <<kind, account_type, data, results, pc, returned, failed, call_obj>>
    /\ UNCHANGED upload_vars
    /\ UNCHANGED call_vars
    /\ UNCHANGED store_vars

CallsNext == Classify \/ MergeCall \/ ProjectCall

CallsSpec == CallsInit /\ [][CallsNext]_vars

----------------------------------------------------------------------------
(* C25 *)

\* the classifier calls among the calls served
C25_Classified == {i \in 1..Len(call_log) : call_log[i].op = "classify"}

----------------------------------------------------------------------------
(* C26 *)

\* every cell of every row denotes a whole number (a cell that denotes no
\* number counts as 0)
C26_IntegerValued(rows) ==
    \A i \in 1..Len(rows) : \A c \in 1..Len(rows[i]) :
        LET amount == safe_float_convert(rows[i][c][2])
        IN  IsFinite(amount) /\ amount.v % Scale = 0

\* the permutations of the positions 1..n
C26_Permutations(n) ==
    {order \in [1..n -> 1..n] : \A i \in 1..n : \A j \in 1..n : order[i] = order[j] => i = j}

\* the bucket of the period in an aggregate, 0 where the aggregate has none
C26_Value(aggregate, month, bucket) ==
    IF month \in DOMAIN aggregate /\ bucket \in DOMAIN aggregate[month]
    THEN aggregate[month][bucket]
    ELSE 0

\* the buckets an aggregate holds in a period
C26_Buckets(aggregate, month) ==
    IF month \in DOMAIN aggregate THEN DOMAIN aggregate[month] ELSE {}

\* whole is the bucket-wise sum of the aggregates left and right
C26_IsSum(whole, left, right) ==
    /\ DOMAIN whole = DOMAIN left \cup DOMAIN right
    /\ \A month \in DOMAIN whole :
           /\ DOMAIN whole[month] = C26_Buckets(left, month) \cup C26_Buckets(right, month)
           /\ \A bucket \in DOMAIN whole[month] :
                  whole[month][bucket] =
                      C26_Value(left, month, bucket) + C26_Value(right, month, bucket)

\* every permutation of the rows of the table gives the aggregate returned
C26_OrderFree ==
    \A order \in C26_Permutations(Len(data)) :
        process_data(kind, account_type, [i \in 1..Len(data) |-> data[order[i]]]) = returned

\* for every split of the table into a head and a tail the aggregate returned
\* is the bucket-wise sum of the aggregates of the head and of the tail
C26_Additive ==
    \A cut \in 0..Len(data) :
        C26_IsSum(returned,
                  process_data(kind, account_type, SubSeq(data, 1, cut)),
                  process_data(kind, account_type, SubSeq(data, cut + 1, Len(data))))

\* C26: when a classifier has returned on a table whose amounts are whole
\* numbers, every permutation of the rows gives the aggregate it returned, and
\* the aggregate is the bucket-wise sum of the aggregates of the two tables
\* it is the concatenation of
C26_RowOrderFree ==
    (pc = "done" /\ C26_IntegerValued(data)) => (C26_OrderFree /\ C26_Additive)

----------------------------------------------------------------------------
(* C27 *)

\* the ledger, shop-sales and multi-route classifiers
C27_RevenueKinds == {"makad", "mercari", "hanro"}

\* the three revenue buckets
C27_RevenueBuckets == {"Amazon", "Amazon2", "MercariShops"}

\* a bucket of the buckets of a period, a missing bucket counting as 0
C27_Value(buckets, bucket) == IF bucket \in DOMAIN buckets THEN buckets[bucket] ELSE 0

\* the same for the floats a classifier at work holds, in tenths
C27_Tenths(buckets, bucket) == IF bucket \in DOMAIN buckets THEN buckets[bucket].v ELSE 0

\* in every period of an aggregate returned or unified the revenue total is
\* the sum of the three revenue buckets
C27_Balanced(aggregate) ==
    \A month \in DOMAIN aggregate :
        C27_Value(aggregate[month], "SalesTotal") =
            C27_Value(aggregate[month], "Amazon") + C27_Value(aggregate[month], "Amazon2")
                + C27_Value(aggregate[month], "MercariShops")

\* the same for the accumulator of a classifier at work, whose floats are
\* all finite
C27_BalancedAtWork(accumulator) ==
    \A month \in DOMAIN accumulator :
        /\ \A bucket \in DOMAIN accumulator[month] : IsFinite(accumulator[month][bucket])
        /\ C27_Tenths(accumulator[month], "SalesTotal") =
               C27_Tenths(accumulator[month], "Amazon") + C27_Tenths(accumulator[month], "Amazon2")
                   + C27_Tenths(accumulator[month], "MercariShops")

\* every uploaded file is a ledger, shop-sales or multi-route export whose
\* amounts are whole numbers
C27_RevenueUpload ==
    \A i \in 1..Len(file_paths) :
        /\ kind_of(file_paths[i].key) \in C27_RevenueKinds
        /\ C26_IntegerValued(safe_read_csv(file_paths[i].file).data)

\* C27: while and after a ledger, shop-sales or multi-route classifier works
\* on a table of whole amounts, its accumulator and the aggregate it returns
\* have, in every period, a revenue total equal to Amazon + Amazon2 +
\* MercariShops, and so has the unified aggregate merged from the aggregates
\* of such calls
C27_RevenueTotal ==
    /\ (kind \in C27_RevenueKinds /\ C26_IntegerValued(data)) =>
           (C27_BalancedAtWork(results) /\ C27_Balanced(returned))
    /\ (pc \in {"merged", "projected"} /\ C27_RevenueUpload) => C27_Balanced(merged_results)

\* a ledger, a multi-route and a shop-sales aggregate have been merged into a
\* period with revenue in two buckets
C27_Witness ==
    /\ pc = "merged" /\ C27_RevenueUpload
    /\ Len(all_results) = 3
    /\ \E month \in DOMAIN merged_results :
           /\ merged_results[month]["Amazon"] > 0
           /\ merged_results[month]["MercariShops"] > 0
           /\ \A k \in 1..Len(all_results) :
                  /\ month \in DOMAIN all_results[k]
                  /\ all_results[k][month]["SalesTotal"] > 0
           /\ merged_results[month]["SalesTotal"] =
                  merged_results[month]["Amazon"] + merged_results[month]["MercariShops"]

----------------------------------------------------------------------------
(* The month store: save_monthly_data, load_monthly_data, get_saved_months *)
(* and delete_month_data                                                   *)

\* a file of a month directory, its state before its content: absent,
\* partial (opened for writing and left without a whole JSON document) or
\* json (a whole document, read back by json.load as the object written)
File(state, obj) == <<state, obj>>

NoFile == File("absent", <<>>)

\* a month directory that does not exist
NoDir == [exists |-> FALSE, metadata |-> NoFile, results |-> NoFile, spreadsheet |-> NoFile]

RECURSIVE Serialisable(_)
\* json.dump accepts dicts, lists, ints, floats and strings and raises
\* TypeError on any other object, at any depth
Serialisable(obj) ==
    IF TypeOf(obj) = "dict"
    THEN \A i \in 1..Len(ValueOf(obj)) : Serialisable(ValueOf(obj)[i][2])
    ELSE IF TypeOf(obj) = "list"
    THEN \A i \in 1..Len(ValueOf(obj)) : Serialisable(ValueOf(obj)[i])
    ELSE TypeOf(obj) \in {"int", "float", "str"}

\* with open(path, 'w') as f: json.dump(obj, f): the file is truncated, then
\* written as far as the encoder gets
json_dump(obj) == IF Serialisable(obj) THEN File("json", obj) ELSE File("partial", <<>>)

\* lines 78-82, without the timestamp
metadata_of(month_key, uploaded_files) ==
    DictObj(<<<<<<"u", "p", "l", "o", "a", "d", "e", "d", "_", "f", "i", "l", "e", "s">>, uploaded_files>>, <<<<"m", "o", "n", "t", "h">>, StrObj(month_key)>>>>)

\* save_monthly_data: the store after the call and what the call returns
save_monthly_data(st, month_key, uploaded_files, save_results, save_spreadsheet) ==
    LET made == [st EXCEPT ![month_key].exists = TRUE]
        meta == [made EXCEPT ![month_key].metadata =
                     json_dump(metadata_of(month_key, uploaded_files))]
        res == [meta EXCEPT ![month_key].results = json_dump(save_results)]
        sheet == [res EXCEPT ![month_key].spreadsheet = json_dump(save_spreadsheet)]
    IN  IF ~Serialisable(uploaded_files) THEN [store |-> meta, ok |-> FALSE]
        ELSE IF ~Serialisable(save_results) THEN [store |-> res, ok |-> FALSE]
        ELSE IF ~Serialisable(save_spreadsheet) THEN [store |-> sheet, ok |-> FALSE]
        ELSE [store |-> sheet, ok |-> TRUE]

\* the dict load_monthly_data returns
Loaded(metadata, load_results, load_spreadsheet) ==
    <<"loaded", metadata, load_results, load_spreadsheet>>

\* load_monthly_data: None without the directory, and None from the handler
\* when a file is missing or holds no whole document
load_monthly_data(st, month_key) ==
    LET dir == st[month_key]
    IN  IF ~dir.exists THEN None
        ELSE IF dir.metadata[1] = "json" /\ dir.results[1] = "json" /\ dir.spreadsheet[1] = "json"
        THEN Loaded(dir.metadata[2], dir.results[2], dir.spreadsheet[2])
        ELSE None

\* generate_month_list: the keys 2025-07 .. 2026-07
MONTH_LIST ==
    {IntToStr(2025) \o <<"-">> \o Pad02(month) : month \in 7..12}
        \cup {IntToStr(2026) \o <<"-">> \o Pad02(month) : month \in 1..7}

\* get_saved_months: the keys of the month list whose directory holds a
\* metadata.json, in ascending order
get_saved_months(st) ==
    sorted({month_key \in DOMAIN st \cap MONTH_LIST :
               st[month_key].exists /\ st[month_key].metadata[1] # "absent"})

\* the month keys of the calls: one of the month list and one outside it
MonthKeys == {<<"2", "0", "2", "5", "-", "0", "7">>, <<"2", "0", "2", "5", "-", "0", "6">>}

\* the results, report and file names given to a save; one report and one
\* dict of file names hold an object json.dump raises on
SaveResults ==
    {DictObj(<<<<<<"2", "0", "2", "5", "-", "0", "7">>, DictObj(<<<<<<"A", "m", "a", "z", "o", "n">>, IntObj(1000)>>>>)>>>>),
     DictObj(<<<<<<"2", "0", "2", "5", "-", "0", "7">>, DictObj(<<<<<<"A", "m", "a", "z", "o", "n">>, IntObj(2000)>>>>)>>>>)}

SaveSpreadsheets ==
    {ListObj(<<DictObj(<<<<<<"U671F", "U9593">>, StrObj(<<"2", "0", "2", "5", "-", "0", "7">>)>>>>)>>),
     ListObj(<<DictObj(<<<<<<"U671F", "U9593">>, Obj("set", <<IntObj(1)>>)>>>>)>>)}

SaveUploadedFiles ==
    {DictObj(<<<<<<"m", "a", "k", "a", "d", "_", "a", "_", "m">>, StrObj(<<"a", ".", "c", "s", "v">>)>>>>),
     DictObj(<<<<<<"m", "a", "k", "a", "d", "_", "a", "_", "m">>, Obj("set", <<IntObj(1)>>)>>>>)}

\* what a successful save leaves to be loaded
Kept(save_results, save_spreadsheet) == <<"kept", save_results, save_spreadsheet>>

StoreInit ==
    /\ store = [month_key \in MonthKeys |-> NoDir]
    /\ last_saved = [month_key \in MonthKeys |-> None]
    /\ store_call = None
    /\ spreadsheet_data = <<>> /\ call_obj = None /\ call_log = <<>>
    /\ call_value = None
    /\ call_date_str = None
    /\ answer = None
    /\ pc = "store"
    /\ kind = "none"
    /\ account_type = "a_m"
    /\ data = <<>>
    /\ results = Empty
    /\ returned = Empty
    /\ failed = FALSE
    /\ file_paths = <<>>
    /\ next_file = 1
    /\ all_results = <<>>
    /\ merged_results = Empty

\* what no call on the store changes
StoreFrame ==
    /\ UNCHANGED <<kind, account_type, data, results, pc, returned, failed>>
    /\ UNCHANGED upload_vars
    /\ UNCHANGED <<call_value, call_date_str, spreadsheet_data, call_obj, call_log>>

\* lines 881-885: save_uploaded_files makes the directory of the month, then
\* save_monthly_data(target_month, uploaded_files, merged_results, spreadsheet_data)
Save ==
    /\ pc = "store"
    /\ \E month_key \in MonthKeys, uploaded_files \in SaveUploadedFiles,
          save_results \in SaveResults, save_spreadsheet \in SaveSpreadsheets :
           LET out == save_monthly_data(store, month_key, uploaded_files,
                                        save_results, save_spreadsheet)
           IN  /\ store' = out.store
               /\ answer' = <<"save", out.ok>>
               /\ last_saved' = IF out.ok
                                THEN [last_saved EXCEPT ![month_key] =
                                          Kept(save_results, save_spreadsheet)]
                                ELSE last_saved
               /\ store_call' = <<"save", month_key>>
    /\ StoreFrame

\* delete_month_data: shutil.rmtree of the directory, 404 without it
Delete ==
    /\ pc = "store"
    /\ \E month_key \in MonthKeys :
           /\ store' = [store EXCEPT ![month_key] = NoDir]
           /\ answer' = <<"delete", IF store[month_key].exists THEN 200 ELSE 404>>
           /\ last_saved' = [last_saved EXCEPT ![month_key] = None]
           /\ store_call' = <<"delete", month_key>>
    /\ StoreFrame

\* a call load_monthly_data(month_key)
Load ==
    /\ pc = "store"
    /\ \E month_key \in MonthKeys :
           /\ answer' = <<"load", load_monthly_data(store, month_key)>>
           /\ store_call' = <<"load", month_key>>
    /\ UNCHANGED <<store, last_saved>>
    /\ StoreFrame

\* a call get_saved_months()
ListSaved ==
    /\ pc = "store"
    /\ answer' = <<"list", get_saved_months(store)>>
    /\ store_call' = <<"list", <<>>>>
    /\ UNCHANGED <<store, last_saved>>
    /\ StoreFrame

StoreNext == Save \/ Delete \/ Load \/ ListSaved

StoreSpec == StoreInit /\ [][StoreNext]_vars

----------------------------------------------------------------------------
(* C28 *)

\* what load_monthly_data returns for the month key holds the results and
\* the report kept, and None when nothing is kept
C28_Loads(kept, loaded) ==
    IF kept = None THEN loaded = None
    ELSE loaded # None /\ loaded[3] = kept[2] /\ loaded[4] = kept[3]

\* no save and no delete of one month key changes what another month key loads
C28_Isolated ==
    [][\A month_key \in MonthKeys :
           (store_call'[1] \in {"save", "delete"} /\ store_call'[2] # month_key)
               => load_monthly_data(store', month_key) = load_monthly_data(store, month_key)]_vars

====
